---- MODULE Spec2Model ----
(***************************************************************************)
(* Container lifecycle of adcm_pytest_plugin: port allocation per xdist    *)
(* worker, container start with retry on port collision, readiness wait.   *)
(* Two orchestrators live in the sources and are modelled side by side:    *)
(*   "launcher" - docker/launchers.py (ADCMLauncher) with docker/steps.py  *)
(*   "wrapper"  - docker_utils.py (DockerWrapper, ADCM)                    *)
(***************************************************************************)
EXTENDS Integers, Sequences, FiniteSets, TLC

VARIABLES
    gw_count,       \* PYTEST_XDIST_WORKER_COUNT as int (0 when unset)
    gw_number,      \* index parsed from PYTEST_XDIST_WORKER ("gw0" when unset)
    busy,           \* ports of bind_ip on which a TCP connect succeeds
    gen,            \* the generator object returned by _yield_ports
    yielded,        \* history: results of the next() calls on gen, in order
    probed,         \* history: ports handed to _port_is_free by gen
    gw_other,       \* a second worker's index (window comparison)
    gen_other,      \* the second worker's generator
    yielded_other,  \* history: ports the second worker's generator yielded
    impl,           \* which orchestrator runs: "launcher" or "wrapper"
    https,          \* TLS: two host ports per start attempt
    preset,         \* wrapper: the caller's config names bind_port itself
    rival,          \* environment: a port that collided has a listener afterwards
    pc,             \* position of the run in the orchestrator's code
    attempts,       \* history: containers.run calls made so far
    allocs,         \* history: times a host port was allocated for 8000
    bind_port,      \* host port for 8000 in the current run arguments
    bind_secure_port, \* host port for 8443 in the current run arguments
    prev_port,      \* history: port 8000 of the attempt that just collided
    all_collided,   \* history: every attempt so far raised a recognized collision
    last_expl,      \* explanation of the APIError being handled
    exc,            \* exception raised to the caller of run
    container,      \* the started container: "none", "running", "killed"
    adcm,           \* the handle the caller can observe
    polls,          \* health requests made by the readiness wait
    errlog,         \* history: request errors seen by the readiness wait
    ok200,          \* history: the health endpoint answered 200 since the start
    timed_out,      \* history: the readiness deadline passed without a 200
    kill_calls,     \* history: container.kill() calls
    kill_result,    \* history: how the kill call ended
    message,        \* what the raised TimeoutError's message carries
    x_pc,           \* per worker process: "idle", "loop" or "failed"
    x_gen,          \* per worker: free_ports of the start in progress
    x_port,         \* per worker: config.bind_port of the start in progress
    x_attempts,     \* per worker: containers.run calls of the start in progress
    x_running,      \* per worker: host ports of its running instances
    x_started,      \* history, per worker: instances started so far
    x_exc,          \* per worker: the exception that ended a start
    x_collisions,   \* history: start attempts the runtime rejected
    i_impl,         \* image preparation by "initializer" or by "launcher"
    i_static,       \* --staticimage names the derived image
    i_dontstop,     \* --dontstop
    i_todo,         \* len(preupload_bundle_urls) / len(stages.prepare_image)
    i_fill,         \* fill_dummy_data
    i_image,        \* the derived image's name: [repo, random, len]
    i_images,       \* names of the images present in the runtime
    i_existed,      \* history: image_exists answered True
    i_pc,           \* position in the fixture / the preparation
    i_cont,         \* the base instance: "none", "running", "exited", "removed"
    i_ops,          \* history: runtime calls on the base instance, in order
    i_commit_on,    \* history: state of the base instance when commit was issued
    i_steps,        \* history: init steps run
    i_bundle,       \* index of the bundle url being uploaded
    i_tries,        \* upload attempts made for the current url
    i_max_tries,    \* history: most upload attempts made for one url
    i_upload_err,   \* history: error class of the last failed upload
    i_result,       \* what the fixture yields
    i_exc,          \* exception raised by the preparation
    i_https,        \* container_config.https: certificates are to be generated
    i_certs,        \* initializer._certs_tmpdir: "none", "created", "cleaned"
    i_adcm,         \* launcher: self.adcm is set (not None)
    f_hooks,        \* prepare_run_arguments: the hooks, in registration order
    f_pc,           \* position in the fold
    f_i,            \* index of the next hook
    f_kwargs,       \* kwargs accumulated so far
    a_impl,         \* address resolution by "wrapper" or by "launcher" (docker/adcm.py)
    a_bind_ip,      \* the bind address
    a_in_docker,    \* is_docker(): the orchestrator runs inside a container
    a_https,        \* TLS enabled
    a_host_port,    \* host port bound to 8000
    a_host_secure_port, \* host port bound to 8443 (NoPort when not published)
    a_container_ip, \* NetworkSettings.IPAddress of the started container
    a_pc,           \* "idle" or "resolved"
    a_handle,       \* the handle: ip, port, secure_port, url
    t_impl,         \* teardown by "launcher" (ADCMLauncher.stop) or by "fixture" (_adcm)
    t_hooks,        \* launcher: per pre_stop hook, whether it raises
    t_dontstop,     \* fixture: --dontstop
    t_gather,       \* fixture: the data directory is to be attached
    t_pc,           \* position in the teardown
    t_i,            \* launcher: index of the next pre_stop hook
    t_calls,        \* history: indices of the hooks invoked, in order
    t_reported,     \* history: hooks whose exception was reported as a step
    t_attach,       \* history: how the artifact collection ended
    t_stop_calls,   \* history: container stop calls
    t_stop_result,  \* history: how the stop call ended
    t_mounted,      \* names of the volumes mounted by the container
    t_volumes,      \* names of the volumes present in the runtime
    t_skipped,      \* history: volumes found already removed
    t_exc,          \* exception raised by the teardown
    t_upgradable,   \* fixture: adcm_is_upgradable of the test
    t_postgres,     \* fixture: the postgres fixture gave a PostgresInfo
    t_shadow,       \* fixture: config.volumes has a volume bound to /adcm/shadow
    t_cont,         \* the container: "none", "running", "exited", "removed"
    t_url,          \* history: the "ADCM URL" attachment was made
    u_impl,         \* lifecycle of a "wrapper" handle (docker_utils.ADCM) or of a "launcher"
    u_pc,           \* position: between operations or inside upgrade
    u_prep,         \* launcher: prepare_image stages are registered
    u_image,        \* wrapper: config.image, config.tag; launcher: image_name
    u_volumes,      \* wrapper: config.volumes, volume name -> bind path
    u_mount,        \* launcher: the /adcm/data mount the run arguments ask for
    u_fact,         \* launcher: the "last-launch-kwargs" step fact
    u_conts,        \* containers started so far: image, run arguments, state
    u_images,       \* images present in the runtime
    u_committed,    \* history: derived images committed by prepare
    u_log,          \* history: runtime steps of the upgrade in progress or just done
    u_target,       \* target of the upgrade in progress or just done
    u_exc,          \* exception raised by the last operation
    u_restop,       \* history: how a stop of an already stopped instance ended
    o_options,      \* the command line options of the image fixture
    o_pc,           \* position in the image fixture
    o_i,            \* index of the option set checked next
    o_lookups,      \* history: image lookups and container starts made
    o_exc,          \* exception raised by the fixture
    r_result,       \* status the task finished with
    r_status,       \* status expected by the caller
    r_jobs,         \* the failed jobs of the task, each with its logs
    r_pc,           \* position in wait_for_task_and_assert_result
    r_j,            \* index of the failed job read next
    r_text,         \* error text extracted so far
    r_msg,          \* additional message of the raised assertion
    r_exc,          \* exception that left the step
    s_cnt,          \* resumed allocation: PYTEST_XDIST_WORKER_COUNT as int
    s_gw,           \* resumed allocation: the worker index
    s_from,         \* resumed allocation: the port_from argument
    s_busy,         \* resumed allocation: ports on which a TCP connect succeeds
    s_gen,          \* resumed allocation: the generator _yield_ports(ip, port_from)
    s_yielded,      \* history: results of the next() calls on s_gen
    e_pc,           \* position of the worker process in the run protocol of its tests
    e_test,         \* history: tests whose run protocol has started on the worker
    e_env,          \* os.environ of the worker, restricted to the phase result variables
    e_rep,          \* the rep_<phase> attributes of the current test item
    e_prev,         \* history: e_env as the previous tests left it when the protocol started
    g_pc,           \* position in the life of an ADCMWithPostgresLauncher ("off": not modelled)
    g_prep,         \* prepare_image stages are registered
    g_hooks,        \* per on_cleanup hook, whether it raises
    g_handle,       \* self.postgres is set
    g_pg,           \* the Postgres container: "none", "running", "stopped", "stop_timed_out"
    g_adcm,         \* the ADCM container started last: "none", "running", "exited", "removed"
    g_local,        \* image_name names a local/adcminit image
    g_log,          \* history: containers started, in order ("postgres", "adcm")
    g_reported,     \* history: on_cleanup hooks whose exception was reported as a step
    g_exc,          \* exception raised by the last operation
    m_specs,        \* ActionsRunReport.actions_specs, as the set of action keys they list
    m_calls,        \* ActionsRunReport.actions: the recorded ActionRunInfo entries
    m_pc,           \* position in make_summary ("off": not modelled)
    m_i,            \* index of the recorded call processed next
    m_report        \* the report built so far, action key -> entry

allocVars == <<gw_count, gw_number, busy, gen, yielded, probed>>
pairVars == <<gw_other, gen_other, yielded_other>>
cfgVars == <<impl, https, preset, rival>>
startVars == <<attempts, allocs, bind_port, bind_secure_port, prev_port,
               all_collided, last_expl>>
waitVars == <<polls, errlog, ok200, timed_out, kill_calls, kill_result, message>>
runVars == <<cfgVars, pc, startVars, exc, container, adcm, waitVars>>
xVars == <<x_pc, x_gen, x_port, x_attempts, x_running, x_started, x_exc,
           x_collisions>>
imgVars == <<i_impl, i_static, i_dontstop, i_todo, i_fill, i_image, i_images,
             i_existed, i_pc, i_cont, i_ops, i_commit_on, i_steps, i_bundle,
             i_tries, i_max_tries, i_upload_err, i_result, i_exc, i_https,
             i_certs, i_adcm>>
foldVars == <<f_hooks, f_pc, f_i, f_kwargs>>
addrVars == <<a_impl, a_bind_ip, a_in_docker, a_https, a_host_port,
              a_host_secure_port, a_container_ip, a_pc, a_handle>>
tdVars == <<t_impl, t_hooks, t_dontstop, t_gather, t_pc, t_i, t_calls,
            t_reported, t_attach, t_stop_calls, t_stop_result, t_mounted,
            t_volumes, t_skipped, t_exc, t_upgradable, t_postgres, t_shadow,
            t_cont, t_url>>
lifeVars == <<u_impl, u_pc, u_prep, u_image, u_volumes, u_mount, u_fact,
              u_conts, u_images, u_committed, u_log, u_target, u_exc,
              u_restop>>
optVars == <<o_options, o_pc, o_i, o_lookups, o_exc>>
actVars == <<r_result, r_status, r_jobs, r_pc, r_j, r_text, r_msg, r_exc>>
resVars == <<s_cnt, s_gw, s_from, s_busy, s_gen, s_yielded>>
envVars == <<e_pc, e_test, e_env, e_rep, e_prev>>
pgVars == <<g_pc, g_prep, g_hooks, g_handle, g_pg, g_adcm, g_local, g_log,
            g_reported, g_exc>>
sumVars == <<m_specs, m_calls, m_pc, m_i, m_report>>
auxVars == <<imgVars, foldVars, addrVars, tdVars, lifeVars, optVars, actVars, resVars, envVars, pgVars, sumVars>>
coreVars == <<allocVars, pairVars, runVars, xVars>>
notImgVars == <<coreVars, foldVars, addrVars, tdVars, lifeVars, optVars, actVars, resVars, envVars, pgVars, sumVars>>
notFoldVars == <<coreVars, imgVars, addrVars, tdVars, lifeVars, optVars, actVars, resVars, envVars, pgVars, sumVars>>
notAddrVars == <<coreVars, imgVars, foldVars, tdVars, lifeVars, optVars, actVars, resVars, envVars, pgVars, sumVars>>
notTdVars == <<coreVars, imgVars, foldVars, addrVars, lifeVars, optVars, actVars, resVars, envVars, pgVars, sumVars>>
notLifeVars == <<coreVars, imgVars, foldVars, addrVars, tdVars, optVars, actVars, resVars, envVars, pgVars, sumVars>>
notOptVars == <<coreVars, imgVars, foldVars, addrVars, tdVars, lifeVars, actVars, resVars, envVars, pgVars, sumVars>>
notActVars == <<coreVars, imgVars, foldVars, addrVars, tdVars, lifeVars, optVars, resVars, envVars, pgVars, sumVars>>
notResVars == <<coreVars, imgVars, foldVars, addrVars, tdVars, lifeVars, optVars, actVars, envVars, pgVars, sumVars>>
notEnvVars == <<coreVars, imgVars, foldVars, addrVars, tdVars, lifeVars, optVars, actVars, resVars, pgVars, sumVars>>
notPgVars == <<coreVars, imgVars, foldVars, addrVars, tdVars, lifeVars, optVars, actVars, resVars, envVars, sumVars>>
notSumVars == <<coreVars, imgVars, foldVars, addrVars, tdVars, lifeVars, optVars, actVars, resVars, envVars, pgVars>>
vars == <<allocVars, pairVars, runVars, xVars, auxVars>>

(***************************************************************************)
(* Program constants                                                       *)
(***************************************************************************)
MIN_DOCKER_PORT == 8000
MAX_DOCKER_PORT == 9000
MAX_WORKER_COUNT == 80
CONTAINER_START_RETRY_COUNT == 20
port_from_default == 0

(***************************************************************************)
(* Bounds of the model                                                     *)
(***************************************************************************)
\* at most this many ports of a window are occupied in an initial state
\* (the fully occupied window is always among the initial states as well)
MaxBusy == 2
\* the worker count and the worker index of the environment go up to
\* MAX_WORKER_COUNT + MaxOver
MaxOver == 2
\* SpecWindows: at most this many relative positions are occupied in the
\* two windows compared
MaxBusyPair == 0

Max(a, b) == IF a >= b THEN a ELSE b

(***************************************************************************)
(* _yield_ports: the window of a worker                                    *)
(***************************************************************************)
range_length == (MAX_DOCKER_PORT - MIN_DOCKER_PORT) \div MAX_WORKER_COUNT

\* faulty variant: neighbouring windows share their edge port
offset_overlap(gw) == MIN_DOCKER_PORT + gw * (range_length - 1)

offset(gw) == MIN_DOCKER_PORT + gw * range_length

range_start(gw, port_from) == Max(port_from, offset(gw))

\* range(range_start, range_start + range_length)
PortRange(gw, port_from) ==
    range_start(gw, port_from) .. (range_start(gw, port_from) + range_length - 1)

\* faulty variant: the connect result compared the wrong way round (== 0)
port_is_free_inverted(b, port) == port \in b

\* sock.connect_ex((ip, port)) != 0
port_is_free(b, port) == port \notin b

\* int(gw_count) > MAX_WORKER_COUNT: pytest.exit(...)
WorkerCountExceeded(cnt) == cnt > MAX_WORKER_COUNT

(***************************************************************************)
(* The generator.  Its body runs lazily: nothing is read or probed before  *)
(* the first next().  A generator that raised is finished.                 *)
(***************************************************************************)
NoPort == 0

NewGen == [started |-> FALSE, done |-> FALSE, pos |-> 0, stop |-> 0]

\* for port in range(pos, stop): if _port_is_free(ip, port): yield port
RECURSIVE ScanFrom(_, _, _)
ScanFrom(p, stop, b) ==
    IF p >= stop THEN NoPort
    ELSE IF port_is_free(b, p) THEN p
    ELSE ScanFrom(p + 1, stop, b)

\* one next() on generator g = _yield_ports(ip, port_from) of worker (cnt, gw)
\* with listeners b
GenNextFrom(g, cnt, gw, b, port_from) ==
    IF g.done
    THEN [kind |-> "StopIteration", port |-> NoPort, gen |-> g, probed |-> {}]
    ELSE IF ~g.started /\ WorkerCountExceeded(cnt)
    THEN [kind |-> "Exit", port |-> NoPort,
          gen |-> [g EXCEPT !.started = TRUE, !.done = TRUE], probed |-> {}]
    ELSE
      LET pos  == IF g.started THEN g.pos ELSE range_start(gw, port_from)
          stop == IF g.started THEN g.stop
                  ELSE range_start(gw, port_from) + range_length
          p    == ScanFrom(pos, stop, b)
      IN IF p = NoPort
         THEN [kind |-> "UnableToBind", port |-> NoPort,
               gen |-> [started |-> TRUE, done |-> TRUE, pos |-> stop, stop |-> stop],
               probed |-> pos .. (stop - 1)]
         ELSE [kind |-> "port", port |-> p,
               gen |-> [started |-> TRUE, done |-> FALSE, pos |-> p + 1, stop |-> stop],
               probed |-> pos .. p]

\* one next() on generator g = _yield_ports(ip) of worker (cnt, gw) with
\* listeners b
GenNext(g, cnt, gw, b) == GenNextFrom(g, cnt, gw, b, port_from_default)

(***************************************************************************)
(* Environments                                                            *)
(***************************************************************************)
\* PYTEST_XDIST_WORKER_COUNT and PYTEST_XDIST_WORKER are read one after the
\* other and related nowhere in the code: any pair is an input.  Without
\* xdist neither is set: count 0, worker "gw0".
CountChoices ==
    {0, 1, 2, MAX_WORKER_COUNT - 1} \cup (MAX_WORKER_COUNT .. MAX_WORKER_COUNT + MaxOver)

NumberChoices ==
    {0, 1, MAX_WORKER_COUNT - 1} \cup (MAX_WORKER_COUNT .. MAX_WORKER_COUNT + MaxOver)

\* occupied ports of one window: at most MaxBusy of them, or all of them
BusyMasks ==
    {m \in SUBSET (0 .. range_length - 1) : Cardinality(m) <= MaxBusy}
    \cup {0 .. range_length - 1}

BusyChoices(gw) ==
    {{range_start(gw, port_from_default) + i : i \in m} : m \in BusyMasks}

(***************************************************************************)
(* SpecAlloc: one worker process drives one generator with next() until    *)
(* it raises.                                                              *)
(***************************************************************************)
PairIdle ==
    /\ gw_other = 0
    /\ gen_other = NewGen
    /\ yielded_other = <<>>

NoHandle == [set |-> FALSE, port |-> NoPort]
NoMessage == [last_error |-> "none", warning |-> FALSE]
NoExplanation == {}

\* no xdist workers
XIdle ==
    /\ x_pc = <<>> /\ x_gen = <<>> /\ x_port = <<>> /\ x_attempts = <<>>
    /\ x_running = <<>> /\ x_started = <<>> /\ x_exc = <<>>
    /\ x_collisions = 0

\* no orchestrator has been asked to run anything
RunIdle ==
    /\ impl = "launcher" /\ https = FALSE /\ preset = FALSE /\ rival = FALSE
    /\ pc = "idle"
    /\ attempts = 0 /\ allocs = 0
    /\ bind_port = NoPort /\ bind_secure_port = NoPort /\ prev_port = NoPort
    /\ all_collided = TRUE
    /\ last_expl = NoExplanation
    /\ exc = "none"
    /\ container = "none"
    /\ adcm = NoHandle
    /\ polls = 0 /\ errlog = <<>>
    /\ ok200 = FALSE /\ timed_out = FALSE
    /\ kill_calls = 0 /\ kill_result = "none"
    /\ message = NoMessage

\* no image is being prepared
ImgIdle ==
    /\ i_impl = "initializer" /\ i_static = FALSE /\ i_dontstop = FALSE
    /\ i_todo = 0 /\ i_fill = FALSE
    /\ i_image = [repo |-> "none", random |-> FALSE, len |-> 0]
    /\ i_images = {}
    /\ i_existed = FALSE
    /\ i_pc = "idle"
    /\ i_cont = "none"
    /\ i_ops = <<>>
    /\ i_commit_on = "none"
    /\ i_steps = 0
    /\ i_bundle = 0 /\ i_tries = 0 /\ i_max_tries = 0
    /\ i_upload_err = "none"
    /\ i_result = [repo |-> "none", random |-> FALSE, len |-> 0]
    /\ i_exc = "none"
    /\ i_https = FALSE /\ i_certs = "none" /\ i_adcm = FALSE

\* no run arguments are being built
FoldIdle ==
    /\ f_hooks = <<>>
    /\ f_pc = "idle"
    /\ f_i = 0
    /\ f_kwargs = <<>>

\* no address is being resolved
AddrIdle ==
    /\ a_impl = "wrapper"
    /\ a_bind_ip = "127.0.0.1"
    /\ a_in_docker = FALSE
    /\ a_https = FALSE
    /\ a_host_port = 0
    /\ a_host_secure_port = 0
    /\ a_container_ip = "none"
    /\ a_pc = "idle"
    /\ a_handle = <<>>

\* no teardown is running
TdIdle ==
    /\ t_impl = "launcher"
    /\ t_hooks = <<>>
    /\ t_dontstop = FALSE
    /\ t_gather = FALSE
    /\ t_pc = "idle"
    /\ t_i = 0
    /\ t_calls = <<>>
    /\ t_reported = {}
    /\ t_attach = "none"
    /\ t_stop_calls = 0
    /\ t_stop_result = "none"
    /\ t_mounted = {}
    /\ t_volumes = {}
    /\ t_skipped = {}
    /\ t_exc = "none"
    /\ t_upgradable = FALSE
    /\ t_postgres = FALSE
    /\ t_shadow = FALSE
    /\ t_cont = "none"
    /\ t_url = FALSE

\* no lifecycle is modelled
LifeIdle ==
    /\ u_impl = "wrapper"
    /\ u_pc = "off"
    /\ u_prep = FALSE
    /\ u_image = <<"none", "none">>
    /\ u_volumes = <<>>
    /\ u_mount = "none"
    /\ u_fact = [port |-> 0, mount |-> "none", given |-> FALSE]
    /\ u_conts = <<>>
    /\ u_images = {}
    /\ u_committed = {}
    /\ u_log = <<>>
    /\ u_target = <<"none", "none">>
    /\ u_exc = "none"
    /\ u_restop = "none"

\* the image fixture options are not modelled
OptIdle ==
    /\ o_options = <<>>
    /\ o_pc = "off"
    /\ o_i = 0
    /\ o_lookups = 0
    /\ o_exc = "none"

\* no action step is running
ActIdle ==
    /\ r_result = "none"
    /\ r_status = "none"
    /\ r_jobs = <<>>
    /\ r_pc = "off"
    /\ r_j = 0
    /\ r_text = <<>>
    /\ r_msg = <<>>
    /\ r_exc = "none"

\* no resumed allocation is modelled
ResIdle ==
    /\ s_cnt = 0
    /\ s_gw = 0
    /\ s_from = 0
    /\ s_busy = {}
    /\ s_gen = NewGen
    /\ s_yielded = <<>>

\* no test protocol is modelled
EnvIdle ==
    /\ e_pc = "off"
    /\ e_test = 0
    /\ e_env = <<>>
    /\ e_rep = <<>>
    /\ e_prev = <<>>

\* no launcher with a Postgres companion is modelled
PgIdle ==
    /\ g_pc = "off"
    /\ g_prep = FALSE
    /\ g_hooks = <<>>
    /\ g_handle = FALSE
    /\ g_pg = "none"
    /\ g_adcm = "none"
    /\ g_local = FALSE
    /\ g_log = <<>>
    /\ g_reported = {}
    /\ g_exc = "none"

\* no actions report is modelled
SumIdle ==
    /\ m_specs = {}
    /\ m_calls = <<>>
    /\ m_pc = "off"
    /\ m_i = 0
    /\ m_report = <<>>

AuxIdle == ImgIdle /\ FoldIdle /\ AddrIdle /\ TdIdle /\ LifeIdle /\ OptIdle /\ ActIdle /\ ResIdle /\ EnvIdle /\ PgIdle /\ SumIdle
NotImgIdle == FoldIdle /\ AddrIdle /\ TdIdle /\ LifeIdle /\ OptIdle /\ ActIdle /\ ResIdle /\ EnvIdle /\ PgIdle /\ SumIdle
NotFoldIdle == ImgIdle /\ AddrIdle /\ TdIdle /\ LifeIdle /\ OptIdle /\ ActIdle /\ ResIdle /\ EnvIdle /\ PgIdle /\ SumIdle
NotAddrIdle == ImgIdle /\ FoldIdle /\ TdIdle /\ LifeIdle /\ OptIdle /\ ActIdle /\ ResIdle /\ EnvIdle /\ PgIdle /\ SumIdle
NotTdIdle == ImgIdle /\ FoldIdle /\ AddrIdle /\ LifeIdle /\ OptIdle /\ ActIdle /\ ResIdle /\ EnvIdle /\ PgIdle /\ SumIdle
NotLifeIdle == ImgIdle /\ FoldIdle /\ AddrIdle /\ TdIdle /\ OptIdle /\ ActIdle /\ ResIdle /\ EnvIdle /\ PgIdle /\ SumIdle
NotOptIdle == ImgIdle /\ FoldIdle /\ AddrIdle /\ TdIdle /\ LifeIdle /\ ActIdle /\ ResIdle /\ EnvIdle /\ PgIdle /\ SumIdle
NotActIdle == ImgIdle /\ FoldIdle /\ AddrIdle /\ TdIdle /\ LifeIdle /\ OptIdle /\ ResIdle /\ EnvIdle /\ PgIdle /\ SumIdle
NotResIdle == ImgIdle /\ FoldIdle /\ AddrIdle /\ TdIdle /\ LifeIdle /\ OptIdle /\ ActIdle /\ EnvIdle /\ PgIdle /\ SumIdle
NotEnvIdle == ImgIdle /\ FoldIdle /\ AddrIdle /\ TdIdle /\ LifeIdle /\ OptIdle /\ ActIdle /\ ResIdle /\ PgIdle /\ SumIdle
NotPgIdle == ImgIdle /\ FoldIdle /\ AddrIdle /\ TdIdle /\ LifeIdle /\ OptIdle /\ ActIdle /\ ResIdle /\ EnvIdle /\ SumIdle
NotSumIdle == ImgIdle /\ FoldIdle /\ AddrIdle /\ TdIdle /\ LifeIdle /\ OptIdle /\ ActIdle /\ ResIdle /\ EnvIdle /\ PgIdle

InitAlloc ==
    /\ gw_count \in CountChoices
    /\ gw_number \in NumberChoices
    /\ busy \in BusyChoices(gw_number)
    /\ gen = NewGen
    /\ yielded = <<>>
    /\ probed = {}
    /\ PairIdle
    /\ RunIdle
    /\ XIdle
    /\ AuxIdle

\* next(gen) returning a port
AllocNext ==
    /\ ~gen.done
    /\ LET r == GenNext(gen, gw_count, gw_number, busy)
       IN /\ r.kind = "port"
          /\ gen' = r.gen
          /\ yielded' = Append(yielded, [kind |-> r.kind, port |-> r.port])
          /\ probed' = probed \cup r.probed
    /\ UNCHANGED <<gw_count, gw_number, busy, pairVars, auxVars, runVars, xVars>>

\* next(gen) raising (pytest.exit or UnableToBind)
AllocRaise ==
    /\ ~gen.done
    /\ LET r == GenNext(gen, gw_count, gw_number, busy)
       IN /\ r.kind \in {"Exit", "UnableToBind"}
          /\ gen' = r.gen
          /\ yielded' = Append(yielded, [kind |-> r.kind, port |-> r.port])
          /\ probed' = probed \cup r.probed
    /\ UNCHANGED <<gw_count, gw_number, busy, pairVars, auxVars, runVars, xVars>>

NextAlloc == AllocNext \/ AllocRaise

SpecAlloc == InitAlloc /\ [][NextAlloc]_vars

(***************************************************************************)
(* SpecWindows: two workers of one xdist run, each draining its generator  *)
(* (next() until it raises).                                               *)
(***************************************************************************)
\* [r.port for r in iter(gen)], ending at the first exception
RECURSIVE Drain(_, _, _, _, _)
Drain(g, cnt, gw, b, acc) ==
    LET r == GenNext(g, cnt, gw, b)
    IN IF r.kind = "port"
       THEN Drain(r.gen, cnt, gw, b, Append(acc, [kind |-> r.kind, port |-> r.port]))
       ELSE [gen |-> r.gen, out |-> Append(acc, [kind |-> r.kind, port |-> r.port])]

\* the same relative positions occupied in both windows
BusyPairMasks ==
    {m \in SUBSET (0 .. range_length - 1) : Cardinality(m) <= MaxBusyPair}

BusyPairChoices(w1, w2) ==
    {{range_start(w, port_from_default) + i : w \in {w1, w2}, i \in m} :
        m \in BusyPairMasks}

InitWindows ==
    /\ gw_count = MAX_WORKER_COUNT
    /\ gw_number \in 0 .. MAX_WORKER_COUNT
    /\ gw_other \in 0 .. MAX_WORKER_COUNT
    /\ busy \in BusyPairChoices(gw_number, gw_other)
    /\ gen = NewGen
    /\ gen_other = NewGen
    /\ yielded = <<>>
    /\ yielded_other = <<>>
    /\ probed = {}
    /\ RunIdle
    /\ XIdle
    /\ AuxIdle

DrainFirst ==
    /\ ~gen.done
    /\ LET d == Drain(gen, gw_count, gw_number, busy, yielded)
       IN /\ gen' = d.gen
          /\ yielded' = d.out
    /\ UNCHANGED <<gw_count, gw_number, busy, probed, gw_other, gen_other,
                   yielded_other, runVars, xVars, auxVars>>

DrainOther ==
    /\ ~gen_other.done
    /\ LET d == Drain(gen_other, gw_count, gw_other, busy, yielded_other)
       IN /\ gen_other' = d.gen
          /\ yielded_other' = d.out
    /\ UNCHANGED <<allocVars, gw_other, runVars, xVars, auxVars>>

NextWindows == DrainFirst \/ DrainOther

SpecWindows == InitWindows /\ [][NextWindows]_vars

(***************************************************************************)
(* The container runtime as the orchestrators see it                       *)
(***************************************************************************)
\* at most this many health requests fit before the readiness deadline
MaxPolls == 2
\* Spec: at most this many ports of the window are occupied initially
MaxBusyRun == 0

PortAllocated == "failed: port is already allocated"
AddressInUse == "bind: address already in use"
CannotAssign == "bind: cannot assign requested address"

\* An APIError's explanation, as the set of the literals above it contains
Explanations == {{}, {PortAllocated}, {AddressInUse}, {CannotAssign}}

\* how containers.run(...) ends: a container, an APIError, or an error of
\* the HTTP client underneath (requests' ReadTimeout), which is no APIError
StartOutcomes ==
    {[kind |-> "ok", expl |-> NoExplanation], [kind |-> "ReadTimeout", expl |-> NoExplanation]}
    \cup {[kind |-> "APIError", expl |-> e] : e \in Explanations}

\* how one health request ends
PollOutcomes == {"200", "non200", "ConnectionError", "Timeout"}
RequestErrors == {"ConnectionError", "Timeout"}

\* how container.kill() ends
KillOutcomes == {"ok", "APIError", "ReadTimeout"}

\* the listeners after a start on port p was rejected as a collision
AfterCollision(b, p) == IF rival THEN b \cup {p} ELSE b

PortsOfAttempt == {bind_port} \cup (IF https THEN {bind_secure_port} ELSE {})

\* faulty variant: the loop runs once more than the retry count
LoopContinues_once_more(n) == n <= CONTAINER_START_RETRY_COUNT

\* for _ in range(CONTAINER_START_RETRY_COUNT)
LoopContinues(n) == n < CONTAINER_START_RETRY_COUNT

(***************************************************************************)
(* docker/launchers.py: ADCMLauncher.run                                   *)
(***************************************************************************)
\* the condition of `continue` in _run_adcm_container
LauncherRetryable(e) ==
    \/ PortAllocated \in e
    \/ AddressInUse \in e
    \/ CannotAssign \in e

\* docker/steps.py: next(_yield_ports(ip)) on a new generator
get_only_http_port(cnt, gw, b) ==
    LET r == GenNext(NewGen, cnt, gw, b)
    IN [kind |-> r.kind, port |-> r.port, secure |-> NoPort]

\* faulty variant: each port is taken from a generator of its own
get_http_and_https_ports_two_generators(cnt, gw, b) ==
    LET r1 == GenNext(NewGen, cnt, gw, b)
        r2 == GenNext(NewGen, cnt, gw, b)
    IN IF r1.kind # "port" THEN [kind |-> r1.kind, port |-> NoPort, secure |-> NoPort]
       ELSE [kind |-> "port", port |-> r1.port, secure |-> r2.port]

\* docker/steps.py: two next() on one new generator, 8000 first
get_http_and_https_ports(cnt, gw, b) ==
    LET r1 == GenNext(NewGen, cnt, gw, b)
        r2 == GenNext(r1.gen, cnt, gw, b)
    IN IF r1.kind # "port" THEN [kind |-> r1.kind, port |-> NoPort, secure |-> NoPort]
       ELSE IF r2.kind # "port" THEN [kind |-> r2.kind, port |-> NoPort, secure |-> NoPort]
       ELSE [kind |-> "port", port |-> r1.port, secure |-> r2.port]

\* the prepare_run_arguments stage of the launcher
PrepareRunArguments(tls, cnt, gw, b) ==
    IF tls THEN get_http_and_https_ports(cnt, gw, b) ELSE get_only_http_port(cnt, gw, b)

\* run(): enters _run_adcm_container
LRun ==
    /\ impl = "launcher" /\ pc = "idle"
    /\ pc' = "l_loop"
    /\ UNCHANGED <<allocVars, pairVars, auxVars, xVars, cfgVars, startVars, exc, container, adcm, waitVars>>

\* the loop is exhausted: raise RetryCountExceeded
LRetryCountExceeded ==
    /\ pc = "l_loop" /\ ~LoopContinues(attempts)
    /\ exc' = "RetryCountExceeded"
    /\ pc' = "raised"
    /\ UNCHANGED <<allocVars, pairVars, auxVars, xVars, cfgVars, startVars, container, adcm, waitVars>>

\* one iteration, up to final_kwargs: the stage hooks choose the ports
LPrepareArgs ==
    /\ pc = "l_loop" /\ LoopContinues(attempts)
    /\ LET a == PrepareRunArguments(https, gw_count, gw_number, busy)
       IN IF a.kind = "port"
          THEN /\ bind_port' = a.port
               /\ bind_secure_port' = a.secure
               /\ allocs' = allocs + 1
               /\ pc' = "l_start"
               /\ exc' = exc
          ELSE /\ exc' = a.kind
               /\ pc' = "raised"
               /\ UNCHANGED <<bind_port, bind_secure_port, allocs>>
    /\ UNCHANGED <<allocVars, pairVars, auxVars, xVars, cfgVars, attempts, prev_port, all_collided,
                   last_expl, container, adcm, waitVars>>

\* containers.run(image, detach=True, **final_kwargs) and the except clause
LStart ==
    /\ pc = "l_start"
    /\ attempts' = attempts + 1
    /\ \E o \in StartOutcomes :
         CASE o.kind = "ok" ->
                /\ container' = "running"
                /\ busy' = busy \cup PortsOfAttempt
                /\ pc' = "l_started"
                /\ last_expl' = NoExplanation
                /\ all_collided' = FALSE
                /\ UNCHANGED <<exc, prev_port>>
           [] o.kind = "APIError" /\ LauncherRetryable(o.expl) ->
                /\ busy' = AfterCollision(busy, bind_port)
                /\ pc' = "l_loop"
                /\ last_expl' = o.expl
                /\ prev_port' = bind_port
                /\ UNCHANGED <<exc, container, all_collided>>
           [] o.kind = "APIError" /\ ~LauncherRetryable(o.expl) ->
                /\ exc' = "APIError"
                /\ last_expl' = o.expl
                /\ pc' = "raised"
                /\ all_collided' = FALSE
                /\ UNCHANGED <<busy, container, prev_port>>
           [] o.kind = "ReadTimeout" ->
                /\ exc' = "ReadTimeout"
                /\ pc' = "raised"
                /\ all_collided' = FALSE
                /\ UNCHANGED <<busy, container, prev_port, last_expl>>
    /\ UNCHANGED <<gw_count, gw_number, gen, yielded, probed, pairVars, auxVars, xVars, cfgVars,
                   allocs, bind_port, bind_secure_port, adcm, waitVars>>

\* self.adcm = self._adcm_class(container, ip=self.bind_ip): the handle is
\* stored before the readiness wait; the constructor inspects the container
\* and may raise, then no handle is stored
LConstruct ==
    /\ pc = "l_started"
    /\ \E built \in BOOLEAN :
         IF built
         THEN /\ adcm' = [set |-> TRUE,
                          port |-> IF https THEN bind_secure_port ELSE bind_port]
              /\ pc' = "l_wait"
              /\ exc' = exc
         ELSE /\ exc' = "ConstructError"
              /\ pc' = "raised"
              /\ adcm' = adcm
    /\ UNCHANGED <<allocVars, pairVars, auxVars, xVars, cfgVars, startVars, container, waitVars>>

\* _wait_adcm_container_init: one pass of the while loop
LPoll ==
    /\ pc = "l_wait" /\ polls < MaxPolls
    /\ polls' = polls + 1
    /\ \E r \in PollOutcomes :
         /\ ok200' = (r = "200")
         /\ pc' = IF r = "200" THEN "returned" ELSE "l_wait"
         /\ errlog' = IF r \in RequestErrors THEN Append(errlog, r) ELSE errlog
    /\ UNCHANGED <<allocVars, pairVars, auxVars, xVars, cfgVars, startVars, exc, container, adcm,
                   timed_out, kill_calls, kill_result, message>>

\* last_error after the loop
LastErrorOf(log) == IF log = <<>> THEN "none" ELSE log[Len(log)]

\* _wait_adcm_container_init: the deadline has passed: kill and raise
LDeadline ==
    /\ pc = "l_wait" /\ polls >= 1
    /\ timed_out' = TRUE
    /\ kill_calls' = kill_calls + 1
    /\ \E k \in KillOutcomes :
         /\ kill_result' = k
         /\ container' = IF k = "ok" THEN "killed" ELSE container
         /\ message' = IF k = "ReadTimeout" THEN message
                       ELSE [last_error |-> LastErrorOf(errlog), warning |-> (k = "APIError")]
         /\ exc' = IF k = "ReadTimeout" THEN "ReadTimeout" ELSE "TimeoutError"
    /\ pc' = "raised"
    /\ UNCHANGED <<allocVars, pairVars, auxVars, xVars, cfgVars, startVars, adcm, polls, errlog, ok200>>

(***************************************************************************)
(* docker_utils.py: ADCM.__init__ -> DockerWrapper                         *)
(*                  .run_adcm_container_from_config                        *)
(***************************************************************************)
\* the condition of the retry in _run_container_on_free_port
WrapperRetryable(e) ==
    \/ PortAllocated \in e
    \/ AddressInUse \in e

\* ADCM(docker_wrapper, container_config): pull, then either the port the
\* config names or the first free port(s) of the worker's window
WRun ==
    /\ impl = "wrapper" /\ pc = "idle"
    /\ \E pulled \in BOOLEAN :
         IF ~pulled
         THEN /\ exc' = "PullError"
              /\ pc' = "raised"
              /\ UNCHANGED <<gen, bind_port, bind_secure_port, allocs>>
         ELSE IF bind_port # NoPort
         THEN /\ pc' = "w_fixed"
              /\ UNCHANGED <<gen, bind_port, bind_secure_port, allocs, exc>>
         ELSE LET r1 == GenNext(NewGen, gw_count, gw_number, busy)
                  r2 == GenNext(r1.gen, gw_count, gw_number, busy)
              IN IF r1.kind # "port"
                 THEN /\ exc' = r1.kind
                      /\ pc' = "raised"
                      /\ gen' = r1.gen
                      /\ UNCHANGED <<bind_port, bind_secure_port, allocs>>
                 ELSE IF https /\ r2.kind # "port"
                 THEN /\ exc' = r2.kind
                      /\ pc' = "raised"
                      /\ gen' = r2.gen
                      /\ bind_port' = r1.port
                      /\ allocs' = allocs + 1
                      /\ UNCHANGED bind_secure_port
                 ELSE /\ pc' = "w_loop"
                      /\ gen' = IF https THEN r2.gen ELSE r1.gen
                      /\ bind_port' = r1.port
                      /\ bind_secure_port' = IF https THEN r2.port ELSE bind_secure_port
                      /\ allocs' = allocs + 1
                      /\ exc' = exc
    /\ UNCHANGED <<gw_count, gw_number, busy, yielded, probed, pairVars, auxVars, xVars, cfgVars,
                   attempts, prev_port, all_collided, last_expl, container, adcm,
                   waitVars>>

\* _run_container(config) with the port the config names: one attempt, every
\* error propagates
WStartFixed ==
    /\ pc = "w_fixed"
    /\ attempts' = attempts + 1
    /\ all_collided' = FALSE
    /\ \E o \in StartOutcomes :
         IF o.kind = "ok"
         THEN /\ container' = "running"
              /\ busy' = busy \cup PortsOfAttempt
              /\ pc' = "w_wait"
              /\ UNCHANGED <<exc, last_expl>>
         ELSE /\ exc' = o.kind
              /\ last_expl' = o.expl
              /\ pc' = "raised"
              /\ UNCHANGED <<busy, container>>
    /\ UNCHANGED <<gw_count, gw_number, gen, yielded, probed, pairVars, auxVars, xVars, cfgVars,
                   allocs, bind_port, bind_secure_port, prev_port, adcm, waitVars>>

\* _run_container_on_free_port: the loop is exhausted
WRetryCountExceeded ==
    /\ exc' = "RetryCountExceeded"
    /\ pc' = "raised"
    /\ UNCHANGED <<allocVars, pairVars, auxVars, xVars, cfgVars, startVars, container, adcm, waitVars>>

\* _run_container_on_free_port: one iteration; on a recognized collision the
\* next port(s) come from the same generator
WAttempt ==
    /\ attempts' = attempts + 1
    /\ \E o \in StartOutcomes :
         CASE o.kind = "ok" ->
                /\ container' = "running"
                /\ busy' = busy \cup PortsOfAttempt
                /\ pc' = "w_wait"
                /\ last_expl' = NoExplanation
                /\ all_collided' = FALSE
                /\ UNCHANGED <<exc, prev_port, gen, bind_port, bind_secure_port, allocs>>
           [] o.kind = "APIError" /\ WrapperRetryable(o.expl) ->
                LET b2 == AfterCollision(busy, bind_port)
                    r1 == GenNext(gen, gw_count, gw_number, b2)
                    r2 == GenNext(r1.gen, gw_count, gw_number, b2)
                IN /\ busy' = b2
                   /\ last_expl' = o.expl
                   /\ prev_port' = bind_port
                   /\ UNCHANGED <<container, all_collided>>
                   /\ IF r1.kind # "port"
                      THEN /\ exc' = r1.kind
                           /\ pc' = "raised"
                           /\ gen' = r1.gen
                           /\ UNCHANGED <<bind_port, bind_secure_port, allocs>>
                      ELSE IF https /\ r2.kind # "port"
                      THEN /\ exc' = r2.kind
                           /\ pc' = "raised"
                           /\ gen' = r2.gen
                           /\ bind_port' = r1.port
                           /\ allocs' = allocs + 1
                           /\ UNCHANGED bind_secure_port
                      ELSE /\ pc' = "w_loop"
                           /\ gen' = IF https THEN r2.gen ELSE r1.gen
                           /\ bind_port' = r1.port
                           /\ bind_secure_port' = IF https THEN r2.port ELSE bind_secure_port
                           /\ allocs' = allocs + 1
                           /\ exc' = exc
           [] o.kind = "APIError" /\ ~WrapperRetryable(o.expl) ->
                /\ exc' = "APIError"
                /\ last_expl' = o.expl
                /\ pc' = "raised"
                /\ all_collided' = FALSE
                /\ UNCHANGED <<busy, container, prev_port, gen, bind_port,
                               bind_secure_port, allocs>>
           [] o.kind = "ReadTimeout" ->
                /\ exc' = "ReadTimeout"
                /\ pc' = "raised"
                /\ all_collided' = FALSE
                /\ UNCHANGED <<busy, container, prev_port, last_expl, gen, bind_port,
                               bind_secure_port, allocs>>
    /\ UNCHANGED <<gw_count, gw_number, yielded, probed, pairVars, auxVars, xVars, cfgVars, adcm,
                   waitVars>>

\* _run_container_on_free_port: the for loop and the raise after it
WStart ==
    /\ pc = "w_loop"
    /\ IF LoopContinues(attempts) THEN WAttempt ELSE WRetryCountExceeded

\* _wait_for_adcm_container_init: wait_for_url polls the health endpoint;
\* when it reports success the constructor completes and the caller gets
\* the ADCM object
WPoll ==
    /\ pc = "w_wait" /\ polls < MaxPolls
    /\ polls' = polls + 1
    /\ \E r \in PollOutcomes :
         /\ ok200' = (r = "200")
         /\ pc' = IF r = "200" THEN "returned" ELSE "w_wait"
         /\ adcm' = IF r = "200"
                    THEN [set |-> TRUE,
                          port |-> IF https THEN bind_secure_port ELSE bind_port]
                    ELSE adcm
         /\ errlog' = IF r \in RequestErrors THEN Append(errlog, r) ELSE errlog
    /\ UNCHANGED <<allocVars, pairVars, auxVars, xVars, cfgVars, startVars, exc, container,
                   timed_out, kill_calls, kill_result, message>>

\* _wait_for_adcm_container_init: wait_for_url returned false: kill, raise
WDeadline ==
    /\ pc = "w_wait" /\ polls >= 1
    /\ timed_out' = TRUE
    /\ kill_calls' = kill_calls + 1
    /\ \E k \in KillOutcomes :
         /\ kill_result' = k
         /\ container' = IF k = "ok" THEN "killed" ELSE container
         /\ message' = IF k = "ReadTimeout" THEN message
                       ELSE [last_error |-> "none", warning |-> (k = "APIError")]
         /\ exc' = IF k = "ReadTimeout" THEN "ReadTimeout" ELSE "TimeoutError"
    /\ pc' = "raised"
    /\ UNCHANGED <<allocVars, pairVars, auxVars, xVars, cfgVars, startVars, adcm, polls, errlog, ok200>>

(***************************************************************************)
(* Spec: one run of either orchestrator in one worker process              *)
(***************************************************************************)
\* (PYTEST_XDIST_WORKER_COUNT, worker index): no xdist, second of two
\* workers, first of more workers than supported
RunEnvs == {<<0, 0>>, <<2, 1>>, <<MAX_WORKER_COUNT + 1, 0>>}

RunBusyMasks ==
    {m \in SUBSET (0 .. range_length - 1) : Cardinality(m) <= MaxBusyRun}
    \cup {0 .. range_length - 1}

RunBusyChoices(gw) ==
    {{range_start(gw, port_from_default) + i : i \in m} : m \in RunBusyMasks}

Init ==
    /\ \E e \in RunEnvs : gw_count = e[1] /\ gw_number = e[2]
    /\ busy \in RunBusyChoices(gw_number)
    /\ gen = NewGen /\ yielded = <<>> /\ probed = {}
    /\ PairIdle
    /\ impl \in {"launcher", "wrapper"}
    /\ https \in BOOLEAN
    /\ preset \in IF impl = "wrapper" THEN BOOLEAN ELSE {FALSE}
    /\ rival \in IF preset THEN {FALSE} ELSE BOOLEAN
    /\ pc = "idle"
    /\ attempts = 0 /\ allocs = 0
    /\ bind_port = IF preset THEN range_start(gw_number, port_from_default) ELSE NoPort
    /\ bind_secure_port =
          IF preset /\ https THEN range_start(gw_number, port_from_default) + 1 ELSE NoPort
    /\ prev_port = NoPort
    /\ all_collided = TRUE
    /\ last_expl = NoExplanation
    /\ exc = "none"
    /\ container = "none"
    /\ adcm = NoHandle
    /\ polls = 0 /\ errlog = <<>>
    /\ ok200 = FALSE /\ timed_out = FALSE
    /\ kill_calls = 0 /\ kill_result = "none"
    /\ message = NoMessage
    /\ XIdle
    /\ AuxIdle

Next ==
    \/ LRun \/ LRetryCountExceeded \/ LPrepareArgs \/ LStart \/ LConstruct
    \/ LPoll \/ LDeadline
    \/ WRun \/ WStartFixed \/ WStart \/ WPoll \/ WDeadline

Spec == Init /\ [][Next]_vars

(***************************************************************************)
(* SpecXdist: the worker processes of one xdist run on one host.  Each     *)
(* starts instances through DockerWrapper._run_container_on_free_port and  *)
(* stops them; nothing else uses the ports.  The runtime rejects a start   *)
(* on a host port that a running container holds.                          *)
(***************************************************************************)
\* worker processes gw0 .. gw<NWorkers-1>
NWorkers == 2
\* instances one worker starts during the run
MaxInst == 2

Workers == 0 .. NWorkers - 1

InitXdist ==
    /\ gw_count = NWorkers
    /\ gw_number = 0
    /\ busy = {}
    /\ gen = NewGen /\ yielded = <<>> /\ probed = {}
    /\ PairIdle
    /\ RunIdle
    /\ AuxIdle
    /\ x_pc = [w \in Workers |-> "idle"]
    /\ x_gen = [w \in Workers |-> NewGen]
    /\ x_port = [w \in Workers |-> NoPort]
    /\ x_attempts = [w \in Workers |-> 0]
    /\ x_running = [w \in Workers |-> {}]
    /\ x_started = [w \in Workers |-> 0]
    /\ x_exc = [w \in Workers |-> "none"]
    /\ x_collisions = 0

\* the runtime's answer to containers.run with host port p
RuntimeStart(b, p) ==
    IF p \in b THEN [kind |-> "APIError", expl |-> {PortAllocated}]
    ELSE [kind |-> "ok", expl |-> NoExplanation]

\* _run_container_on_free_port up to the loop: free_ports, first next()
XBegin(w) ==
    /\ x_pc[w] = "idle" /\ x_started[w] < MaxInst
    /\ LET r == GenNext(NewGen, gw_count, w, busy)
       IN /\ x_gen' = [x_gen EXCEPT ![w] = r.gen]
          /\ x_attempts' = [x_attempts EXCEPT ![w] = 0]
          /\ IF r.kind = "port"
             THEN /\ x_port' = [x_port EXCEPT ![w] = r.port]
                  /\ x_pc' = [x_pc EXCEPT ![w] = "loop"]
                  /\ x_exc' = x_exc
             ELSE /\ x_pc' = [x_pc EXCEPT ![w] = "failed"]
                  /\ x_exc' = [x_exc EXCEPT ![w] = r.kind]
                  /\ x_port' = x_port
    /\ UNCHANGED <<allocVars, pairVars, auxVars, runVars, x_running, x_started, x_collisions>>

\* _run_container_on_free_port: one pass of the loop, or the raise after it
XStart(w) ==
    /\ x_pc[w] = "loop"
    /\ IF ~LoopContinues(x_attempts[w])
       THEN /\ x_pc' = [x_pc EXCEPT ![w] = "failed"]
            /\ x_exc' = [x_exc EXCEPT ![w] = "RetryCountExceeded"]
            /\ UNCHANGED <<busy, x_gen, x_port, x_attempts, x_running, x_started,
                           x_collisions>>
       ELSE LET o == RuntimeStart(busy, x_port[w])
                r == GenNext(x_gen[w], gw_count, w, busy)
            IN /\ x_attempts' = [x_attempts EXCEPT ![w] = @ + 1]
               /\ IF o.kind = "ok"
                  THEN /\ busy' = busy \cup {x_port[w]}
                       /\ x_running' = [x_running EXCEPT ![w] = @ \cup {x_port[w]}]
                       /\ x_started' = [x_started EXCEPT ![w] = @ + 1]
                       /\ x_pc' = [x_pc EXCEPT ![w] = "idle"]
                       /\ UNCHANGED <<x_gen, x_port, x_exc, x_collisions>>
                  ELSE IF WrapperRetryable(o.expl)
                  THEN /\ x_collisions' = x_collisions + 1
                       /\ x_gen' = [x_gen EXCEPT ![w] = r.gen]
                       /\ IF r.kind = "port"
                          THEN /\ x_port' = [x_port EXCEPT ![w] = r.port]
                               /\ UNCHANGED <<x_pc, x_exc>>
                          ELSE /\ x_pc' = [x_pc EXCEPT ![w] = "failed"]
                               /\ x_exc' = [x_exc EXCEPT ![w] = r.kind]
                               /\ x_port' = x_port
                       /\ UNCHANGED <<busy, x_running, x_started>>
                  ELSE /\ x_pc' = [x_pc EXCEPT ![w] = "failed"]
                       /\ x_exc' = [x_exc EXCEPT ![w] = o.kind]
                       /\ UNCHANGED <<busy, x_gen, x_port, x_running, x_started,
                                      x_collisions>>
    /\ UNCHANGED <<gw_count, gw_number, gen, yielded, probed, pairVars, auxVars, runVars>>

\* ADCM.stop() in a fixture's teardown: the instance's port is released
XStop(w) ==
    /\ x_pc[w] = "idle"
    /\ \E p \in x_running[w] :
         /\ x_running' = [x_running EXCEPT ![w] = @ \ {p}]
         /\ busy' = busy \ {p}
    /\ UNCHANGED <<gw_count, gw_number, gen, yielded, probed, pairVars, auxVars, runVars,
                   x_pc, x_gen, x_port, x_attempts, x_started, x_exc, x_collisions>>

NextXdist == \E w \in Workers : XBegin(w) \/ XStart(w) \/ XStop(w)

SpecXdist == InitXdist /\ [][NextXdist]_vars

(***************************************************************************)
(* SpecImage: preparation of the initialized image.                        *)
(*   "initializer" - fixtures.py `image` with docker_utils.ADCMInitializer *)
(*   "launcher"    - docker/launchers.py ADCMLauncher.prepare              *)
(***************************************************************************)
\* bundle urls / prepare_image steps configured
MaxTodo == 2

\* utils.random_string(strlen: int = 10)
random_string_strlen == 10
\* retry_call(self._upload_bundle, fargs=[url], tries=5)
upload_tries == 5

random_string(strlen) == [repo |-> "local/adcminit", random |-> TRUE, len |-> strlen]

\* --staticimage REPO:TAG, parsed by parse_repository_tag
StaticImage == [repo |-> "static", random |-> FALSE, len |-> 3]

NoImage == [repo |-> "none", random |-> FALSE, len |-> 0]

\* faulty variant: the existence check never finds the image
image_exists_never(images, name) == FALSE

\* dc.images.get(name=f"{repo}:{tag}") without ImageNotFound
image_exists(images, name) == name \in images

\* faulty variant: only --dontstop keeps the image
LeaveImage_dontstop_only(dontstop, static) == dontstop

\* if cmd_opts.dontstop or cmd_opts.staticimage: return  # leave image intact
LeaveImage(dontstop, static) == dontstop \/ static

\* what one upload_from_url call can end in
UploadOutcomes == {"ok", "BUNDLE_ERROR", "OTHER_ERROR"}

\* _upload_bundle: ErrorMessage is swallowed iff it carries BUNDLE_ERROR
upload_bundle(r) == IF r \in {"ok", "BUNDLE_ERROR"} THEN "ok" ELSE "ErrorMessage"

\* retry_call: another try is left after n failed ones
RetryCallContinues(n) == n < upload_tries

\* _generate_certs: `if not self.container_config.https: return`, else
\* self._certs_tmpdir = TemporaryDirectory()
generate_certs(tls, certs) == IF tls THEN "created" ELSE certs

\* cleanup: `if self.container_config.https: self._certs_tmpdir.cleanup()`
\* with _certs_tmpdir still None
cleanup_raises(tls, certs) == tls /\ certs = "none"

InitImage ==
    /\ gw_count = 0 /\ gw_number = 0 /\ busy = {}
    /\ gen = NewGen /\ yielded = <<>> /\ probed = {}
    /\ PairIdle /\ RunIdle /\ XIdle
    /\ NotImgIdle
    /\ i_impl \in {"initializer", "launcher"}
    /\ i_static \in (IF i_impl = "initializer" THEN BOOLEAN ELSE {FALSE})
    /\ i_dontstop \in (IF i_impl = "initializer" THEN BOOLEAN ELSE {FALSE})
    /\ i_todo \in 0 .. MaxTodo
    /\ i_fill \in (IF i_impl = "initializer" THEN BOOLEAN ELSE {FALSE})
    /\ i_image = IF i_static THEN StaticImage ELSE random_string(random_string_strlen)
    /\ i_images \in (IF i_static THEN {{}, {StaticImage}} ELSE {{}})
    /\ i_existed = FALSE
    /\ i_pc = "idle"
    /\ i_cont = "none"
    /\ i_ops = <<>>
    /\ i_commit_on = "none"
    /\ i_steps = 0
    /\ i_bundle = 0 /\ i_tries = 0 /\ i_max_tries = 0
    /\ i_upload_err = "none"
    /\ i_result = NoImage
    /\ i_exc = "none"
    /\ i_https \in (IF i_impl = "initializer" THEN BOOLEAN ELSE {FALSE})
    /\ i_certs = "none"
    /\ i_adcm = FALSE

\* fixture image: ADCMInitializer(...).get_initialized_adcm_image()
IGetImage ==
    /\ i_impl = "initializer" /\ i_pc = "idle"
    /\ i_existed' = image_exists(i_images, i_image)
    /\ IF image_exists(i_images, i_image)
       THEN i_result' = i_image /\ i_pc' = "yielded"
       ELSE i_result' = i_result /\ i_pc' = "start"
    /\ UNCHANGED <<notImgVars, i_adcm, i_https, i_certs, i_impl, i_static, i_dontstop, i_todo, i_fill, i_image,
                   i_images, i_cont, i_ops, i_commit_on, i_steps, i_bundle,
                   i_tries, i_max_tries, i_upload_err, i_exc>>

\* init_adcm: ADCM(docker_wrapper=dw, container_config=...) with remove=False
IStartBase ==
    /\ i_impl = "initializer" /\ i_pc = "start"
    /\ \E o \in {"ok", "TimeoutError", "APIError"} :
         CASE o = "ok" ->
                /\ i_cont' = "running" /\ i_ops' = <<"run">>
                /\ i_pc' = "upload" /\ i_bundle' = 1
                /\ i_exc' = i_exc
           [] o = "TimeoutError" ->
                /\ \E k \in {"ok", "APIError"} :
                     i_cont' = IF k = "ok" THEN "exited" ELSE "running"
                /\ i_ops' = <<"run", "kill">>
                /\ i_pc' = "raised" /\ i_exc' = "TimeoutError"
                /\ i_bundle' = i_bundle
           [] o = "APIError" ->
                /\ i_pc' = "raised" /\ i_exc' = "APIError"
                /\ UNCHANGED <<i_cont, i_ops, i_bundle>>
    /\ UNCHANGED <<notImgVars, i_adcm, i_https, i_certs, i_impl, i_static, i_dontstop, i_todo, i_fill, i_image,
                   i_images, i_existed, i_commit_on, i_steps, i_tries, i_max_tries,
                   i_upload_err, i_result>>

\* _preupload_bundles: one call of _upload_bundle under retry_call
IUpload ==
    /\ i_impl = "initializer" /\ i_pc = "upload" /\ i_bundle <= i_todo
    /\ \E r \in UploadOutcomes :
         /\ i_steps' = i_steps + 1
         /\ i_max_tries' = Max(i_max_tries, i_tries + 1)
         /\ IF upload_bundle(r) = "ok"
            THEN /\ i_bundle' = i_bundle + 1 /\ i_tries' = 0
                 /\ UNCHANGED <<i_pc, i_exc, i_upload_err>>
            ELSE /\ i_upload_err' = r
                 /\ i_tries' = i_tries + 1
                 /\ i_bundle' = i_bundle
                 /\ IF RetryCallContinues(i_tries + 1)
                    THEN UNCHANGED <<i_pc, i_exc>>
                    ELSE i_pc' = "raised" /\ i_exc' = upload_bundle(r)
    /\ UNCHANGED <<notImgVars, i_adcm, i_https, i_certs, i_impl, i_static, i_dontstop, i_todo, i_fill, i_image,
                   i_images, i_existed, i_cont, i_ops, i_commit_on, i_result>>

\* _fill_dummy_data and _generate_certs
IFill ==
    /\ i_impl = "initializer" /\ i_pc = "upload" /\ i_bundle > i_todo
    /\ IF i_fill
       THEN \E r \in {"ok", "raise"} :
              /\ i_steps' = i_steps + 1
              /\ IF r = "ok" THEN i_pc' = "stop" /\ i_exc' = i_exc
                 ELSE i_pc' = "raised" /\ i_exc' = "StepError"
       ELSE i_pc' = "stop" /\ UNCHANGED <<i_steps, i_exc>>
    /\ UNCHANGED <<notImgVars, i_adcm, i_https, i_certs, i_impl, i_static, i_dontstop, i_todo, i_fill, i_image,
                   i_images, i_existed, i_cont, i_ops, i_commit_on, i_bundle,
                   i_tries, i_max_tries, i_upload_err, i_result>>

\* self._generate_certs(): nothing without https, else a TemporaryDirectory
\* is created and kept; then self._adcm.stop(): container.stop(), no wait
\* since remove is False
IStop ==
    /\ i_impl = "initializer" /\ i_pc = "stop"
    /\ i_certs' = generate_certs(i_https, i_certs)
    /\ i_cont' = "exited"
    /\ i_ops' = Append(i_ops, "stop")
    /\ i_pc' = "commit"
    /\ UNCHANGED <<notImgVars, i_adcm, i_https, i_impl, i_static, i_dontstop, i_todo, i_fill, i_image,
                   i_images, i_existed, i_commit_on, i_steps, i_bundle, i_tries,
                   i_max_tries, i_upload_err, i_result, i_exc>>

\* self._adcm.container.commit(repository=self.repo, tag=self.tag)
ICommit ==
    /\ i_impl = "initializer" /\ i_pc = "commit"
    /\ i_commit_on' = i_cont
    /\ i_images' = i_images \cup {i_image}
    /\ i_ops' = Append(i_ops, "commit")
    /\ i_pc' = "remove"
    /\ UNCHANGED <<notImgVars, i_adcm, i_https, i_certs, i_impl, i_static, i_dontstop, i_todo, i_fill, i_image,
                   i_existed, i_cont, i_steps, i_bundle, i_tries, i_max_tries,
                   i_upload_err, i_result, i_exc>>

\* self._adcm.remove(); return {"repo": ..., "tag": ...}
IRemove ==
    /\ i_impl = "initializer" /\ i_pc = "remove"
    /\ i_cont' = "removed"
    /\ i_ops' = Append(i_ops, "remove")
    /\ i_result' = i_image
    /\ i_pc' = "yielded"
    /\ UNCHANGED <<notImgVars, i_adcm, i_https, i_certs, i_impl, i_static, i_dontstop, i_todo, i_fill, i_image,
                   i_images, i_existed, i_commit_on, i_steps, i_bundle, i_tries,
                   i_max_tries, i_upload_err, i_exc>>

\* fixture image after the yield: initializer.cleanup(), then
\* remove_docker_image unless the image is kept; an error of cleanup leaves
\* the fixture before the decision is taken
ITeardown ==
    /\ i_impl = "initializer" /\ i_pc = "yielded"
    /\ IF cleanup_raises(i_https, i_certs)
       THEN /\ i_exc' = "AttributeError"
            /\ i_pc' = "cleanup_raised"
            /\ UNCHANGED <<i_images, i_certs>>
       ELSE /\ i_certs' = IF i_https THEN "cleaned" ELSE i_certs
            /\ i_images' = IF LeaveImage(i_dontstop, i_static) THEN i_images
                           ELSE i_images \ {i_result}
            /\ i_pc' = "done"
            /\ i_exc' = i_exc
    /\ UNCHANGED <<notImgVars, i_adcm, i_https, i_impl, i_static, i_dontstop, i_todo, i_fill,
                   i_image, i_existed, i_cont, i_ops, i_commit_on, i_steps,
                   i_bundle, i_tries, i_max_tries, i_upload_err, i_result>>

\* ADCMLauncher.prepare up to the steps: run (remove=True), handle, wait;
\* the handle is stored before the wait
LPrepare ==
    /\ i_impl = "launcher" /\ i_pc = "idle"
    /\ IF i_todo = 0
       THEN i_pc' = "done" /\ UNCHANGED <<i_cont, i_ops, i_bundle, i_exc, i_adcm>>
       ELSE \E o \in {"ok", "TimeoutError", "APIError"} :
         CASE o = "ok" ->
                /\ i_cont' = "running" /\ i_ops' = <<"run">>
                /\ i_pc' = "steps" /\ i_bundle' = 1
                /\ i_exc' = i_exc
                /\ i_adcm' = TRUE
           [] o = "TimeoutError" ->
                /\ \E k \in {"ok", "APIError"} :
                     i_cont' = IF k = "ok" THEN "removed" ELSE "running"
                /\ i_ops' = <<"run", "kill">>
                /\ i_pc' = "raised" /\ i_exc' = "TimeoutError"
                /\ i_bundle' = i_bundle
                /\ i_adcm' = TRUE
           [] o = "APIError" ->
                /\ i_pc' = "raised" /\ i_exc' = "APIError"
                /\ UNCHANGED <<i_cont, i_ops, i_bundle, i_adcm>>
    /\ UNCHANGED <<notImgVars, i_https, i_certs, i_impl, i_static, i_dontstop, i_todo,
                   i_fill, i_image, i_images, i_existed, i_commit_on, i_steps,
                   i_tries, i_max_tries, i_upload_err, i_result>>

\* for step in self._stages.prepare_image: step(self)
LPrepareStep ==
    /\ i_impl = "launcher" /\ i_pc = "steps" /\ i_bundle <= i_todo
    /\ \E r \in {"ok", "raise"} :
         /\ i_steps' = i_steps + 1
         /\ IF r = "ok"
            THEN i_bundle' = i_bundle + 1 /\ UNCHANGED <<i_pc, i_exc>>
            ELSE i_pc' = "raised" /\ i_exc' = "StepError" /\ i_bundle' = i_bundle
    /\ UNCHANGED <<notImgVars, i_adcm, i_https, i_certs, i_impl, i_static, i_dontstop, i_todo, i_fill, i_image,
                   i_images, i_existed, i_cont, i_ops, i_commit_on, i_tries,
                   i_max_tries, i_upload_err, i_result>>

\* container.commit(repository=self._local_repository, tag=tag)
LPrepareCommit ==
    /\ i_impl = "launcher" /\ i_pc = "steps" /\ i_bundle > i_todo
    /\ i_commit_on' = i_cont
    /\ i_images' = i_images \cup {i_image}
    /\ i_ops' = Append(i_ops, "commit")
    /\ i_pc' = "l_stop"
    /\ UNCHANGED <<notImgVars, i_adcm, i_https, i_certs, i_impl, i_static, i_dontstop, i_todo, i_fill, i_image,
                   i_existed, i_cont, i_steps, i_bundle, i_tries, i_max_tries,
                   i_upload_err, i_result, i_exc>>

\* faulty variant: image_name is assigned before the container is stopped
prepared_image_name_early(o, name, derived) == derived

\* prepare: self.image_name = f"{self._local_repository}:{tag}" is the
\* statement after the stop, reached only when the stop returned
prepared_image_name(o, name, derived) == IF o = "ok" THEN derived ELSE name

\* self.adcm.container.stop(), not guarded (the runtime removes the
\* container: remove=True); self.image_name = ...; self.adcm = None
LPrepareStop ==
    /\ i_impl = "launcher" /\ i_pc = "l_stop"
    /\ i_ops' = Append(i_ops, "stop")
    /\ \E o \in {"ok", "ReadTimeout"} :
         /\ i_result' = prepared_image_name(o, i_result, i_image)
         /\ IF o = "ok"
            THEN /\ i_cont' = "removed"
                 /\ i_adcm' = FALSE
                 /\ i_pc' = "done"
                 /\ i_exc' = i_exc
            ELSE /\ i_cont' \in {"running", "removed"}
                 /\ i_adcm' = i_adcm
                 /\ i_pc' = "raised"
                 /\ i_exc' = o
    /\ UNCHANGED <<notImgVars, i_https, i_certs, i_impl, i_static, i_dontstop, i_todo,
                   i_fill, i_image, i_images, i_existed, i_commit_on, i_steps,
                   i_bundle, i_tries, i_max_tries, i_upload_err>>

NextImage ==
    \/ IGetImage \/ IStartBase \/ IUpload \/ IFill \/ IStop \/ ICommit \/ IRemove
    \/ ITeardown
    \/ LPrepare \/ LPrepareStep \/ LPrepareCommit \/ LPrepareStop

SpecImage == InitImage /\ [][NextImage]_vars

(***************************************************************************)
(* SpecFold: ADCMLauncher._run_adcm_container builds the run arguments by  *)
(* folding the prepare_run_arguments hooks over the default kwargs.  A     *)
(* dict is a function from its keys; the value of a dict-valued key        *)
(* (labels, volumes, ports) is the set of its entries.                     *)
(***************************************************************************)
\* hooks registered
MaxHooks == 2

NestedKeys == {"labels", "volumes", "ports"}
Entries == {"a", "b"}

\* a hook returns {key: {its own entries}}; like mount_ssl_certs it may first
\* copy the entries run_args already holds under that key
Hooks == [key : NestedKeys, own : {{e} : e \in Entries}, merges : BOOLEAN]

\* _prepare_default_kwargs: {"remove": True}
prepare_default_kwargs == [k \in {"remove"} |-> TRUE]

\* run_args.get(key, {})
DictGet(d, key) == IF key \in DOMAIN d THEN d[key] ELSE {}

\* step(self, {**kwargs})
HookResult(h, run_args) ==
    [k \in {h.key} |-> IF h.merges THEN DictGet(run_args, h.key) \cup h.own ELSE h.own]

\* kwargs.update(u)
dict_update(d, u) ==
    [k \in DOMAIN d \cup DOMAIN u |-> IF k \in DOMAIN u THEN u[k] ELSE d[k]]

HookSeqs == UNION {[1 .. n -> Hooks] : n \in 0 .. MaxHooks}

InitFold ==
    /\ gw_count = 0 /\ gw_number = 0 /\ busy = {}
    /\ gen = NewGen /\ yielded = <<>> /\ probed = {}
    /\ PairIdle /\ RunIdle /\ XIdle
    /\ NotFoldIdle
    /\ f_hooks \in HookSeqs
    /\ f_pc = "idle"
    /\ f_i = 0
    /\ f_kwargs = <<>>

\* kwargs = self._prepare_default_kwargs()
FoldBegin ==
    /\ f_pc = "idle"
    /\ f_kwargs' = prepare_default_kwargs
    /\ f_i' = 1
    /\ f_pc' = "folding"
    /\ UNCHANGED <<notFoldVars, f_hooks>>

\* kwargs.update(step(self, {**kwargs}))
FoldHook ==
    /\ f_pc = "folding" /\ f_i <= Len(f_hooks)
    /\ f_kwargs' = dict_update(f_kwargs, HookResult(f_hooks[f_i], f_kwargs))
    /\ f_i' = f_i + 1
    /\ UNCHANGED <<notFoldVars, f_hooks, f_pc>>

\* final_kwargs = kwargs_mutator(kwargs) with the default mutator
FoldEnd ==
    /\ f_pc = "folding" /\ f_i > Len(f_hooks)
    /\ f_pc' = "done"
    /\ UNCHANGED <<notFoldVars, f_hooks, f_i, f_kwargs>>

NextFold == FoldBegin \/ FoldHook \/ FoldEnd

SpecFold == InitFold /\ [][NextFold]_vars

(***************************************************************************)
(* SpecAddr: the address under which a started instance is reached.        *)
(*   "wrapper"  - DockerWrapper._get_adcm_ip_and_port and ADCM's url       *)
(*   "launcher" - docker/adcm.py ADCM.__init__ and url                     *)
(***************************************************************************)
DEFAULT_IP == "127.0.0.1"
\* api_port = "8000", api_secure_port = "8443"
internal_port == 8000
internal_secure_port == 8443

\* faulty variant: every loopback bind is rewritten, inside a container or not
rewrite_address_any_loopback(ip, in_docker) == ip = DEFAULT_IP

\* config.bind_ip == DEFAULT_IP and is_docker()
rewrite_address(ip, in_docker) == ip = DEFAULT_IP /\ in_docker

\* _get_adcm_ip_and_port / the branches of docker/adcm.py ADCM.__init__
get_adcm_ip_and_port(ip, in_docker, cont_ip, port, secure_port) ==
    IF rewrite_address(ip, in_docker)
    THEN [ip |-> cont_ip, port |-> internal_port, secure_port |-> internal_secure_port]
    ELSE [ip |-> ip, port |-> port, secure_port |-> secure_port]

\* protocol property
protocol(tls) == IF tls THEN "https" ELSE "http"

\* url property: f"{self.protocol}://{self.ip}:{self.port}"
url(h, tls) ==
    [protocol |-> protocol(tls), ip |-> h.ip,
     port |-> IF tls THEN h.secure_port ELSE h.port]

BindIps == {DEFAULT_IP, "10.0.0.5"}
ContainerIps == {"172.17.0.2", "172.17.0.3"}

InitAddr ==
    /\ gw_count = 0 /\ gw_number = 0 /\ busy = {}
    /\ gen = NewGen /\ yielded = <<>> /\ probed = {}
    /\ PairIdle /\ RunIdle /\ XIdle
    /\ NotAddrIdle
    /\ a_impl \in {"wrapper", "launcher"}
    /\ a_bind_ip \in BindIps
    /\ a_in_docker \in BOOLEAN
    /\ a_https \in BOOLEAN
    /\ a_host_port \in {MIN_DOCKER_PORT, MIN_DOCKER_PORT + range_length}
    /\ a_host_secure_port \in {NoPort, a_host_port + 1}
    /\ a_container_ip \in ContainerIps
    /\ a_pc = "idle"
    /\ a_handle = <<>>

\* run_adcm_container_from_config: config.api_* = self._get_adcm_ip_and_port(...)
AResolveWrapper ==
    /\ a_impl = "wrapper" /\ a_pc = "idle"
    /\ LET h == get_adcm_ip_and_port(a_bind_ip, a_in_docker, a_container_ip,
                                     a_host_port, a_host_secure_port)
       IN a_handle' = [ip |-> h.ip, port |-> h.port, secure_port |-> h.secure_port,
                       url |-> url(h, a_https)]
    /\ a_pc' = "resolved"
    /\ UNCHANGED <<notAddrVars, a_impl, a_bind_ip, a_in_docker, a_https, a_host_port,
                   a_host_secure_port, a_container_ip>>

\* docker/adcm.py ADCM.__init__: the host ports are read back from
\* NetworkSettings.Ports
AResolveLauncher ==
    /\ a_impl = "launcher" /\ a_pc = "idle"
    /\ LET h == get_adcm_ip_and_port(a_bind_ip, a_in_docker, a_container_ip,
                                     a_host_port, a_host_secure_port)
       IN a_handle' = [ip |-> h.ip, port |-> h.port, secure_port |-> h.secure_port,
                       url |-> url(h, a_https)]
    /\ a_pc' = "resolved"
    /\ UNCHANGED <<notAddrVars, a_impl, a_bind_ip, a_in_docker, a_https, a_host_port,
                   a_host_secure_port, a_container_ip>>

NextAddr == AResolveWrapper \/ AResolveLauncher

SpecAddr == InitAddr /\ [][NextAddr]_vars

(***************************************************************************)
(* SpecTeardown: stopping an instance after a test.                        *)
(*   "launcher" - ADCMLauncher.stop: pre_stop hooks, stop, volumes         *)
(*   "fixture"  - fixtures.py _adcm after the yield: collect, stop, volumes*)
(***************************************************************************)
\* pre_stop hooks registered
MaxPreStop == 3

Volumes == {"v1", "v2"}
\* a volume of the runtime that the container does not mount
OtherVolume == "other"

\* faulty variant: the context manager lets the exception through
add_step_on_error_reraise(o) == o

\* _add_step_on_error: except Exception -> reported as an allure step
add_step_on_error(o) == IF o = "Exception" THEN "reported" ELSE o

\* how container.stop() can end
StopOutcomes == {"ok", "ReadTimeout"}

\* faulty variant: the stop call is not guarded
StopSuppressed_none(o) == FALSE

\* with suppress(ReadTimeout): ... .stop()
StopSuppressed(o) == o = "ReadTimeout"

\* ADCM.stop / container.stop(): where the call leaves the container.
\* The container runs with remove=True: once stopped the runtime removes it,
\* the bounded wait for that may give up; after a read-timeout the runtime
\* has not answered and the container may be in any state.
container_after_stop(o) ==
    IF o = "ok" THEN {"exited", "removed"} ELSE {"running", "exited", "removed"}

\* faulty variant: --dontstop is not honoured
leave_container_never(dontstop) == FALSE

\* _adcm: `if request.config.option.dontstop: ...; return`
leave_container(dontstop) == dontstop

\* _adcm: `if postgres: ... else: if upgradable: config.volumes[...] = /adcm/shadow`
shadow_volume(postgres, upgradable) == ~postgres /\ upgradable

\* for each mounted volume: with suppress(NotFound): volumes.get(name).remove()
remove_container_volumes(mounted, present) == present \ mounted

PreStopSeqs == UNION {[1 .. n -> BOOLEAN] : n \in 0 .. MaxPreStop}

InitTeardown ==
    /\ gw_count = 0 /\ gw_number = 0 /\ busy = {}
    /\ gen = NewGen /\ yielded = <<>> /\ probed = {}
    /\ PairIdle /\ RunIdle /\ XIdle
    /\ NotTdIdle
    /\ t_impl \in {"launcher", "fixture"}
    /\ t_hooks \in (IF t_impl = "launcher" THEN PreStopSeqs ELSE {<<>>})
    /\ t_dontstop \in (IF t_impl = "fixture" THEN BOOLEAN ELSE {FALSE})
    /\ t_gather \in (IF t_impl = "fixture" THEN BOOLEAN ELSE {FALSE})
    /\ t_pc = IF t_impl = "launcher" THEN "hooks" ELSE "setup"
    /\ t_upgradable \in (IF t_impl = "fixture" THEN BOOLEAN ELSE {FALSE})
    /\ t_postgres \in (IF t_impl = "fixture" THEN BOOLEAN ELSE {FALSE})
    /\ t_shadow = FALSE
    /\ t_cont = IF t_impl = "launcher" THEN "running" ELSE "none"
    /\ t_url = FALSE
    /\ t_i = 1
    /\ t_calls = <<>>
    /\ t_reported = {}
    /\ t_attach = "none"
    /\ t_stop_calls = 0
    /\ t_stop_result = "none"
    /\ t_mounted \in SUBSET Volumes
    /\ \E gone \in SUBSET t_mounted : t_volumes = (t_mounted \ gone) \cup {OtherVolume}
    /\ t_skipped = {}
    /\ t_exc = "none"

\* ADCMLauncher.stop: one pass of `for step in self._stages.pre_stop`
LStopHook ==
    /\ t_impl = "launcher" /\ t_pc = "hooks" /\ t_i <= Len(t_hooks)
    /\ t_calls' = Append(t_calls, t_i)
    /\ LET o == add_step_on_error(IF t_hooks[t_i] THEN "Exception" ELSE "ok")
       IN CASE o = "ok" ->
                 t_i' = t_i + 1 /\ UNCHANGED <<t_reported, t_pc, t_exc>>
            [] o = "reported" ->
                 /\ t_i' = t_i + 1
                 /\ t_reported' = t_reported \cup {t_i}
                 /\ UNCHANGED <<t_pc, t_exc>>
            [] OTHER ->
                 /\ t_pc' = "raised" /\ t_exc' = o
                 /\ UNCHANGED <<t_i, t_reported>>
    /\ UNCHANGED <<notTdVars, t_impl, t_hooks, t_dontstop, t_gather, t_attach,
                   t_stop_calls, t_stop_result, t_mounted, t_volumes, t_skipped,
                   t_upgradable, t_postgres, t_shadow, t_cont, t_url>>

\* ADCMLauncher.stop: with suppress(ReadTimeout): self.adcm.container.stop()
LStopContainer ==
    /\ t_impl = "launcher" /\ t_pc = "hooks" /\ t_i > Len(t_hooks)
    /\ t_stop_calls' = t_stop_calls + 1
    /\ \E o \in StopOutcomes :
         /\ t_stop_result' = o
         /\ t_cont' \in container_after_stop(o)
         /\ IF o = "ok" \/ StopSuppressed(o)
            THEN t_pc' = "volumes" /\ t_exc' = t_exc
            ELSE t_pc' = "raised" /\ t_exc' = o
    /\ UNCHANGED <<notTdVars, t_impl, t_hooks, t_dontstop, t_gather, t_i, t_calls,
                   t_reported, t_attach, t_mounted, t_volumes, t_skipped,
                   t_upgradable, t_postgres, t_shadow, t_url>>

\* _adcm up to the yield: the config is built, the shadow volume is added
\* for an upgradable instance without postgres, the container is started
FSetup ==
    /\ t_impl = "fixture" /\ t_pc = "setup"
    /\ t_shadow' = shadow_volume(t_postgres, t_upgradable)
    /\ t_cont' = "running"
    /\ t_pc' = "test"
    /\ UNCHANGED <<notTdVars, t_impl, t_hooks, t_dontstop, t_gather, t_i, t_calls,
                   t_reported, t_attach, t_stop_calls, t_stop_result, t_mounted,
                   t_volumes, t_skipped, t_exc, t_upgradable, t_postgres, t_url>>

\* _adcm: `yield adcm`, the test body runs and gives control back
FYield ==
    /\ t_impl = "fixture" /\ t_pc = "test"
    /\ t_pc' = "teardown"
    /\ UNCHANGED <<notTdVars, t_impl, t_hooks, t_dontstop, t_gather, t_i, t_calls,
                   t_reported, t_attach, t_stop_calls, t_stop_result, t_mounted,
                   t_volumes, t_skipped, t_exc, t_upgradable, t_postgres, t_shadow,
                   t_cont, t_url>>

\* _adcm after the yield: --dontstop leaves the container; else the data
\* directory is attached when the test failed or its report is missing
FCollect ==
    /\ t_impl = "fixture" /\ t_pc = "teardown"
    /\ IF leave_container(t_dontstop)
       THEN t_pc' = "done" /\ t_url' = TRUE /\ UNCHANGED <<t_attach, t_exc>>
       ELSE IF t_gather
       THEN \E r \in {"ok", "raise"} :
              /\ t_attach' = r
              /\ t_url' = t_url
              /\ IF r = "ok" THEN t_pc' = "f_stop" /\ t_exc' = t_exc
                 ELSE t_pc' = "raised" /\ t_exc' = "CollectError"
       ELSE t_pc' = "f_stop" /\ UNCHANGED <<t_attach, t_exc, t_url>>
    /\ UNCHANGED <<notTdVars, t_impl, t_hooks, t_dontstop, t_gather, t_i, t_calls,
                   t_reported, t_stop_calls, t_stop_result, t_mounted, t_volumes,
                   t_skipped, t_upgradable, t_postgres, t_shadow, t_cont>>

\* _adcm: with suppress(DockerReadTimeout): adcm.stop()
FStopContainer ==
    /\ t_impl = "fixture" /\ t_pc = "f_stop"
    /\ t_stop_calls' = t_stop_calls + 1
    /\ \E o \in StopOutcomes :
         /\ t_stop_result' = o
         /\ t_cont' \in container_after_stop(o)
         /\ IF o = "ok" \/ StopSuppressed(o)
            THEN t_pc' = "volumes" /\ t_exc' = t_exc
            ELSE t_pc' = "raised" /\ t_exc' = o
    /\ UNCHANGED <<notTdVars, t_impl, t_hooks, t_dontstop, t_gather, t_i, t_calls,
                   t_reported, t_attach, t_mounted, t_volumes, t_skipped,
                   t_upgradable, t_postgres, t_shadow, t_url>>

\* remove_container_volumes(container, ...)
TRemoveVolumes ==
    /\ t_pc = "volumes"
    /\ t_skipped' = t_mounted \ t_volumes
    /\ t_volumes' = remove_container_volumes(t_mounted, t_volumes)
    /\ t_pc' = "done"
    /\ UNCHANGED <<notTdVars, t_impl, t_hooks, t_dontstop, t_gather, t_i, t_calls,
                   t_reported, t_attach, t_stop_calls, t_stop_result, t_mounted,
                   t_exc, t_upgradable, t_postgres, t_shadow, t_cont, t_url>>

NextTeardown ==
    \/ LStopHook \/ LStopContainer
    \/ FSetup \/ FYield \/ FCollect \/ FStopContainer
    \/ TRemoveVolumes

SpecTeardown == InitTeardown /\ [][NextTeardown]_vars

(***************************************************************************)
(* SpecLifecycle: run, upgrade, stop and cleanup of one instance.          *)
(*   "wrapper"  - docker_utils.ADCM with its ContainerConfig               *)
(*   "launcher" - docker/launchers.py ADCMLauncher                         *)
(***************************************************************************)
\* containers started by one handle or launcher
MaxStarts == 3

None == "None"
DefaultImage == "hub.arenadata.io/adcm/adcm"
DefaultTag == "latest"
local_repository == "local/adcminit"

\* Python truthiness of an Optional[str]
Falsy(x) == x \in {None, ""}

\* ContainerConfig.__post_init__: self.image = self.image or ..., same for tag
post_init(image, tag) ==
    <<IF Falsy(image) THEN DefaultImage ELSE image,
      IF Falsy(tag) THEN DefaultTag ELSE tag>>

\* image and tag as a caller may pass them to the config
ImageInputs == {None, "", "arenadata/adcm"}
TagInputs == {None, "", "2023.01"}

\* adcm_image of the launcher, e.g. a pinned release
BaseImage == <<"arenadata/adcm", "2023.01">>

\* upgrade targets; parse_repository_tag gives a None tag for a bare name
Targets == {<<"arenadata/adcm", "2023.02">>, <<"arenadata/adcm", None>>}

HostPorts == {8000, 8001}

NoVolumes == [n \in {} |-> ""]
ShadowVolume == [n \in {"vol-1"} |-> "/adcm/shadow"]

\* run arguments: host port, the /adcm/data mount asked for, and whether
\* the dictionary has any key at all
EmptyKwargs == [port |-> 0, mount |-> "none", given |-> FALSE]

\* cleanup: `if self._local_repository in self.image_name`
is_local(image) == image[1] = local_repository

\* faulty variant: the assertion is missing
has_volumes_unchecked(volumes) == TRUE

\* ADCM.upgrade: `assert self.container_config.volumes`
has_volumes(volumes) == DOMAIN volumes # {}

\* ADCMLauncher.upgrade: the three RuntimeError checks, in order
launcher_upgrade_error(mount, fact) ==
    IF mount = "none" THEN "no volume"
    ELSE IF mount = "unnamed" THEN "volume has no name"
    ELSE IF ~fact.given THEN "no launch kwargs"
    ELSE "none"

\* faulty variant: the new container gets a freshly chosen port
upgrade_args_fresh(prev) == [prev EXCEPT !.port = IF prev.port = 8000 THEN 8001 ELSE 8000]

\* run arguments of the container started by upgrade: the config keeps
\* bind_port / the mutator returns the recorded kwargs
upgrade_args(prev) == prev

\* container.stop() by the state of the container
stop_outcome(state) ==
    IF state = "running" THEN {"ok", "ReadTimeout"}
    ELSE IF state = "exited" THEN {"ok"}
    ELSE {"NotFound"}

\* the readiness wait: the API answers, or the wait times out and the
\* container is killed (the kill may fail)
ReadyOutcomes == {"ready", "timeout", "timeout_kill_failed"}
StartedState(r) == IF r = "timeout" THEN "removed" ELSE "running"

\* the container the handle points at
cur == Len(u_conts)
CurState == IF cur = 0 THEN "none" ELSE u_conts[cur].state
SetCurState(st) == [u_conts EXCEPT ![cur].state = st]
WrapperArgs(p) ==
    [port |-> p, mount |-> IF has_volumes(u_volumes) THEN "named" ELSE "none",
     given |-> TRUE]

InitLifecycle ==
    /\ gw_count = 0 /\ gw_number = 0 /\ busy = {}
    /\ gen = NewGen /\ yielded = <<>> /\ probed = {}
    /\ PairIdle /\ RunIdle /\ XIdle
    /\ NotLifeIdle
    /\ u_impl \in {"wrapper", "launcher"}
    /\ u_pc = "new"
    /\ u_prep \in (IF u_impl = "launcher" THEN BOOLEAN ELSE {FALSE})
    /\ u_image \in (IF u_impl = "launcher" THEN {BaseImage}
                    ELSE {post_init(i, t) : i \in ImageInputs, t \in TagInputs})
    /\ u_volumes \in (IF u_impl = "wrapper" THEN {NoVolumes, ShadowVolume} ELSE {NoVolumes})
    /\ u_mount \in (IF u_impl = "launcher" THEN {"none", "unnamed", "named"} ELSE {"none"})
    /\ u_fact = EmptyKwargs
    /\ u_conts = <<>>
    /\ u_images = {BaseImage} \cup {t \in Targets : TRUE}
    /\ u_committed = {}
    /\ u_log = <<>>
    /\ u_target = <<"none", "none">>
    /\ u_exc = "none"
    /\ u_restop = "none"

\* ADCM.__init__: run_adcm_container_from_config, which waits for the API
UWRun ==
    /\ u_impl = "wrapper" /\ u_pc = "new"
    /\ \E p \in HostPorts, r \in ReadyOutcomes :
         /\ u_conts' = Append(u_conts, [image |-> u_image, args |-> WrapperArgs(p),
                                        state |-> StartedState(r)])
         /\ IF r = "ready" THEN u_pc' = "idle" /\ u_exc' = "none"
            ELSE u_pc' = "raised" /\ u_exc' = "TimeoutError"
    /\ u_log' = <<>>
    /\ UNCHANGED <<notLifeVars, u_impl, u_prep, u_image, u_volumes, u_mount,
                   u_fact, u_images, u_committed, u_target, u_restop>>

\* ADCM.upgrade: the assertion on config.volumes
UWUpgradeCheck ==
    /\ u_impl = "wrapper" /\ u_pc = "idle" /\ CurState = "running"
    /\ cur < MaxStarts
    /\ \E t \in Targets : u_target' = t
    /\ u_log' = <<>>
    /\ IF has_volumes(u_volumes)
       THEN u_pc' = "up_copy" /\ u_exc' = "none"
       ELSE u_pc' = "raised" /\ u_exc' = "AssertionError"
    /\ UNCHANGED <<notLifeVars, u_impl, u_prep, u_image, u_volumes, u_mount,
                   u_fact, u_conts, u_images, u_committed, u_restop>>

\* ADCM.upgrade: exec_run("cp -a /adcm/data/* <bind>") in the container
UWUpgradeCopy ==
    /\ u_impl = "wrapper" /\ u_pc = "up_copy"
    /\ u_log' = Append(u_log, "copy")
    /\ u_pc' = "up_cfg"
    /\ UNCHANGED <<notLifeVars, u_impl, u_prep, u_image, u_volumes, u_mount,
                   u_fact, u_conts, u_images, u_committed, u_target, u_exc,
                   u_restop>>

\* ADCM.upgrade: image, tag and the bind of the volume are rewritten
UWUpgradeConfig ==
    /\ u_impl = "wrapper" /\ u_pc = "up_cfg"
    /\ u_image' = u_target
    /\ u_volumes' = [n \in DOMAIN u_volumes |-> "/adcm/data"]
    /\ u_log' = Append(u_log, "config")
    /\ u_pc' = "up_stop"
    /\ UNCHANGED <<notLifeVars, u_impl, u_prep, u_mount, u_fact, u_conts,
                   u_images, u_committed, u_target, u_exc, u_restop>>

\* ADCM.upgrade: self.stop(); a read-timeout is not caught here
UWUpgradeStop ==
    /\ u_impl = "wrapper" /\ u_pc = "up_stop"
    /\ u_log' = Append(u_log, "stop")
    /\ \E o \in stop_outcome(CurState) :
         /\ \E st \in container_after_stop(o) : u_conts' = SetCurState(st)
         /\ IF o = "ok" THEN u_pc' = "up_start" /\ u_exc' = "none"
            ELSE u_pc' = "raised" /\ u_exc' = o
    /\ UNCHANGED <<notLifeVars, u_impl, u_prep, u_image, u_volumes, u_mount,
                   u_fact, u_images, u_committed, u_target, u_restop>>

\* ADCM.upgrade: run_adcm_container_from_config with the updated config
UWUpgradeStart ==
    /\ u_impl = "wrapper" /\ u_pc = "up_start"
    /\ \E r \in ReadyOutcomes :
         /\ u_conts' = Append(u_conts, [image |-> u_image,
                                        args |-> upgrade_args(u_conts[cur].args),
                                        state |-> StartedState(r)])
         /\ IF r = "ready"
            THEN u_pc' = "idle" /\ u_exc' = "none"
                 /\ u_log' = u_log \o <<"start", "ready">>
            ELSE u_pc' = "raised" /\ u_exc' = "TimeoutError"
                 /\ u_log' = Append(u_log, "start")
    /\ UNCHANGED <<notLifeVars, u_impl, u_prep, u_image, u_volumes, u_mount,
                   u_fact, u_images, u_committed, u_target, u_restop>>

\* ADCM.stop, also on a handle that was stopped before
UWStop ==
    /\ u_impl = "wrapper" /\ u_pc \in {"idle", "stopped"}
    /\ u_log' = <<>>
    /\ \E o \in stop_outcome(CurState) :
         /\ u_restop' = IF CurState # "running" THEN o ELSE u_restop
         /\ IF o = "NotFound" THEN u_conts' = u_conts
            ELSE IF CurState = "running"
            THEN \E st \in container_after_stop(o) : u_conts' = SetCurState(st)
            ELSE u_conts' = u_conts
         /\ IF o = "ok" THEN u_pc' = "stopped" /\ u_exc' = "none"
            ELSE u_pc' = "raised" /\ u_exc' = o
    /\ UNCHANGED <<notLifeVars, u_impl, u_prep, u_image, u_volumes, u_mount,
                   u_fact, u_images, u_committed, u_target>>

\* ADCMLauncher.prepare: nothing without prepare_image stages; else a
\* container is run, the steps are applied and it is committed as
\* local/adcminit:<random tag>, which becomes image_name
ULPrepare ==
    /\ u_impl = "launcher" /\ u_pc = "new"
    /\ u_pc' = "prepared"
    /\ IF ~u_prep
       THEN UNCHANGED <<u_image, u_images, u_committed, u_fact>>
       ELSE LET derived == <<local_repository, random_string(random_string_strlen)>>
            IN /\ u_images' = u_images \cup {derived}
               /\ u_committed' = u_committed \cup {derived}
               /\ u_image' = derived
               /\ \E p \in HostPorts :
                    u_fact' = [port |-> p, mount |-> u_mount, given |-> TRUE]
    /\ UNCHANGED <<notLifeVars, u_impl, u_prep, u_volumes, u_mount, u_conts,
                   u_log, u_target, u_exc, u_restop>>

\* ADCMLauncher.run: the run arguments pass through the mutator, are
\* recorded as last-launch-kwargs, the container is started and awaited
ULRun ==
    /\ u_impl = "launcher" /\ u_pc \in {"prepared", "stopped"}
    /\ cur < MaxStarts
    /\ u_log' = <<>>
    /\ \E p \in HostPorts, mutator \in {"identity", "empty"}, r \in ReadyOutcomes :
         LET kw == IF mutator = "identity"
                   THEN [port |-> p, mount |-> u_mount, given |-> TRUE]
                   ELSE EmptyKwargs
         IN /\ u_fact' = kw
            /\ u_conts' = Append(u_conts, [image |-> u_image, args |-> kw,
                                           state |-> StartedState(r)])
            /\ IF r = "ready" THEN u_pc' = "idle" /\ u_exc' = "none"
               ELSE u_pc' = "raised" /\ u_exc' = "TimeoutError"
    /\ UNCHANGED <<notLifeVars, u_impl, u_prep, u_image, u_volumes, u_mount,
                   u_images, u_committed, u_target, u_restop>>

\* ADCMLauncher.upgrade: the mount, its name and the recorded kwargs
ULUpgradeCheck ==
    /\ u_impl = "launcher" /\ u_pc = "idle" /\ CurState = "running"
    /\ cur < MaxStarts
    /\ \E t \in Targets : u_target' = t
    /\ u_log' = <<>>
    /\ IF launcher_upgrade_error(u_conts[cur].args.mount, u_fact) = "none"
       THEN u_pc' = "lup_stop" /\ u_exc' = "none"
       ELSE u_pc' = "raised" /\ u_exc' = "RuntimeError"
    /\ UNCHANGED <<notLifeVars, u_impl, u_prep, u_image, u_volumes, u_mount,
                   u_fact, u_conts, u_images, u_committed, u_restop>>

\* ADCMLauncher.upgrade: self.adcm.container.stop()
ULUpgradeStop ==
    /\ u_impl = "launcher" /\ u_pc = "lup_stop"
    /\ u_log' = Append(u_log, "stop")
    /\ \E o \in stop_outcome(CurState) :
         /\ \E st \in container_after_stop(o) : u_conts' = SetCurState(st)
         /\ IF o = "ok" THEN u_pc' = "lup_run" /\ u_exc' = "none"
            ELSE u_pc' = "raised" /\ u_exc' = o
    /\ UNCHANGED <<notLifeVars, u_impl, u_prep, u_image, u_volumes, u_mount,
                   u_fact, u_images, u_committed, u_target, u_restop>>

\* ADCMLauncher.upgrade: image_name = target, then run with the recorded kwargs
ULUpgradeRun ==
    /\ u_impl = "launcher" /\ u_pc = "lup_run"
    /\ u_image' = u_target
    /\ \E r \in ReadyOutcomes :
         LET kw == upgrade_args(u_fact)
         IN /\ u_fact' = kw
            /\ u_conts' = Append(u_conts, [image |-> u_target, args |-> kw,
                                           state |-> StartedState(r)])
            /\ IF r = "ready"
               THEN u_pc' = "idle" /\ u_exc' = "none"
                    /\ u_log' = u_log \o <<"image", "start", "ready">>
               ELSE u_pc' = "raised" /\ u_exc' = "TimeoutError"
                    /\ u_log' = u_log \o <<"image", "start">>
    /\ UNCHANGED <<notLifeVars, u_impl, u_prep, u_volumes, u_mount, u_images,
                   u_committed, u_target, u_restop>>

\* ADCMLauncher.stop, also on a launcher that was stopped before;
\* only a read-timeout of the stop call is suppressed
ULStop ==
    /\ u_impl = "launcher" /\ u_pc \in {"idle", "stopped"}
    /\ u_log' = <<>>
    /\ \E o \in stop_outcome(CurState) :
         /\ u_restop' = IF CurState # "running" THEN o ELSE u_restop
         /\ IF o = "NotFound" THEN u_conts' = u_conts
            ELSE IF CurState = "running"
            THEN \E st \in container_after_stop(o) : u_conts' = SetCurState(st)
            ELSE u_conts' = u_conts
         /\ IF o = "ok" \/ StopSuppressed(o)
            THEN u_pc' = "stopped" /\ u_exc' = "none"
            ELSE u_pc' = "raised" /\ u_exc' = o
    /\ UNCHANGED <<notLifeVars, u_impl, u_prep, u_image, u_volumes, u_mount,
                   u_fact, u_images, u_committed, u_target>>

\* ADCMLauncher.cleanup: the image is removed when image_name is a
\* local/adcminit one
ULCleanup ==
    /\ u_impl = "launcher" /\ u_pc \in {"prepared", "idle", "stopped", "raised"}
    /\ u_images' = IF is_local(u_image) THEN u_images \ {u_image} ELSE u_images
    /\ u_pc' = "cleaned"
    /\ UNCHANGED <<notLifeVars, u_impl, u_prep, u_image, u_volumes, u_mount,
                   u_fact, u_conts, u_committed, u_log, u_target, u_exc,
                   u_restop>>

NextLifecycle ==
    \/ UWRun \/ UWUpgradeCheck \/ UWUpgradeCopy \/ UWUpgradeConfig
    \/ UWUpgradeStop \/ UWUpgradeStart \/ UWStop
    \/ ULPrepare \/ ULRun \/ ULUpgradeCheck \/ ULUpgradeStop \/ ULUpgradeRun
    \/ ULStop \/ ULCleanup

SpecLifecycle == InitLifecycle /\ [][NextLifecycle]_vars

(***************************************************************************)
(* SpecOptions: the option check at the start of the image fixture.        *)
(***************************************************************************)
OptNames == {"adcm_image", "adcm_images", "adcm_min_version", "staticimage"}

\* an option is absent, given empty, or given
OptValues == {None, "", "given"}

\* fixtures.py: mutually_exclusive_opts
mutually_exclusive_opts ==
    <<<<"adcm_image", "adcm_images", "adcm_min_version">>,
      <<"staticimage", "adcm_images", "adcm_min_version">>>>

\* the loop `for opt in opts: if getattr(options, opt): count += 1`
RECURSIVE CountTruthy(_, _)
CountTruthy(options, opts) ==
    IF opts = <<>> THEN 0
    ELSE (IF Falsy(options[Head(opts)]) THEN 0 ELSE 1) + CountTruthy(options, Tail(opts))

\* faulty variant: one option is already too many
check_mutually_exclusive_any(options, opts) == CountTruthy(options, opts) > 0

\* utils.check_mutually_exclusive: return count > 1
check_mutually_exclusive(options, opts) == CountTruthy(options, opts) > 1

InitOptions ==
    /\ gw_count = 0 /\ gw_number = 0 /\ busy = {}
    /\ gen = NewGen /\ yielded = <<>> /\ probed = {}
    /\ PairIdle /\ RunIdle /\ XIdle
    /\ NotOptIdle
    /\ o_options \in [OptNames -> OptValues]
    /\ o_pc = "check"
    /\ o_i = 1
    /\ o_lookups = 0
    /\ o_exc = "none"

\* image: one pass of `for opt_sets in mutually_exclusive_opts`
OCheck ==
    /\ o_pc = "check"
    /\ IF check_mutually_exclusive(o_options, mutually_exclusive_opts[o_i])
       THEN o_pc' = "raised" /\ o_exc' = "Exception" /\ o_i' = o_i
       ELSE /\ o_i' = o_i + 1
            /\ o_pc' = IF o_i = Len(mutually_exclusive_opts) THEN "init" ELSE "check"
            /\ o_exc' = o_exc
    /\ UNCHANGED <<notOptVars, o_options, o_lookups>>

\* image: ADCMInitializer(...).get_initialized_adcm_image(), the first
\* image lookup, up to the yield
OInitImage ==
    /\ o_pc = "init"
    /\ o_lookups' = o_lookups + 1
    /\ o_pc' = "yielded"
    /\ UNCHANGED <<notOptVars, o_options, o_i, o_exc>>

NextOptions == OCheck \/ OInitImage

SpecOptions == InitOptions /\ [][NextOptions]_vars

(***************************************************************************)
(* SpecAction: wait_for_task_and_assert_result on a finished task.         *)
(***************************************************************************)
\* failed jobs of a task
MaxJobs == 2
\* fatal tasks in one stdout log
MaxFatal == 2

\* A failed job: the parent of a multijob has no logs (LOG_NOT_FOUND);
\* otherwise a stderr log, with or without an "ERROR!" text, followed by a
\* stdout log with some fatal tasks and a rescued count in its recap.
JobShapes ==
    {[nolog |-> TRUE, stderr |-> "warning", fatals |-> 0, rescued |-> 0]}
    \cup [nolog : {FALSE}, stderr : {"warning", "error"},
          fatals : 0 .. MaxFatal, rescued : {0, 1}]

JobSeqs == UNION {[1 .. n -> JobShapes] : n \in 0 .. MaxJobs}

\* _extract_error_from_ansible_stdout: failed_tasks[rescued]
extract_error_from_ansible_stdout(job, j) ==
    IF job.rescued < job.fatals
    THEN [exc |-> "none", text |-> <<<<"fatal", j, job.rescued + 1>>>>]
    ELSE [exc |-> "IndexError", text |-> <<>>]

\* _extract_error_from_ansible_stderr: the text from "ERROR!" on, or ""
extract_error_from_ansible_stderr(job, j) ==
    IF job.stderr = "error" THEN <<<<"ERROR!", j>>>> ELSE <<>>

\* one pass of `for job in task.job_list(status="failed")`
job_error(job, j) ==
    IF job.nolog THEN [exc |-> "none", text |-> <<>>]
    ELSE IF extract_error_from_ansible_stderr(job, j) # <<>>
    THEN [exc |-> "none", text |-> extract_error_from_ansible_stderr(job, j)]
    ELSE extract_error_from_ansible_stdout(job, j)

InitAction ==
    /\ gw_count = 0 /\ gw_number = 0 /\ busy = {}
    /\ gen = NewGen /\ yielded = <<>> /\ probed = {}
    /\ PairIdle /\ RunIdle /\ XIdle
    /\ NotActIdle
    /\ r_result \in {"success", "failed"}
    /\ r_status \in {"success", "failed"}
    /\ r_jobs \in (IF r_result = "failed" THEN JobSeqs ELSE {<<>>})
    /\ r_pc = "wait"
    /\ r_j = 1
    /\ r_text = <<>>
    /\ r_msg = <<>>
    /\ r_exc = "none"

\* result = task.wait(); the logs are read only for an unexpected failure
AWait ==
    /\ r_pc = "wait"
    /\ r_pc' = IF r_result # r_status /\ r_status = "success" /\ r_jobs # <<>>
               THEN "jobs" ELSE "assert"
    /\ UNCHANGED <<notActVars, r_result, r_status, r_jobs, r_j, r_text, r_msg, r_exc>>

\* _get_error_text_from_task_logs: the logs of one failed job
AJob ==
    /\ r_pc = "jobs"
    /\ LET e == job_error(r_jobs[r_j], r_j)
       IN IF e.exc = "none"
          THEN /\ r_text' = r_text \o e.text
               /\ r_j' = r_j + 1
               /\ r_pc' = IF r_j = Len(r_jobs) THEN "assert" ELSE "jobs"
               /\ r_exc' = r_exc
          ELSE /\ r_pc' = "raised" /\ r_exc' = e.exc
               /\ UNCHANGED <<r_text, r_j>>
    /\ UNCHANGED <<notActVars, r_result, r_status, r_jobs, r_msg>>

\* assert_action_result(result, status, additional_message=ansible_error)
AAssert ==
    /\ r_pc = "assert"
    /\ IF r_result = r_status
       THEN r_pc' = "done" /\ UNCHANGED <<r_exc, r_msg>>
       ELSE r_pc' = "raised" /\ r_exc' = "AssertionError" /\ r_msg' = r_text
    /\ UNCHANGED <<notActVars, r_result, r_status, r_jobs, r_j, r_text>>

NextAction == AWait \/ AJob \/ AAssert

SpecAction == InitAction /\ [][NextAction]_vars

(***************************************************************************)
(* SpecResume: one worker process drives one generator                     *)
(* _yield_ports(ip, port_from) with next() until it raises.                *)
(***************************************************************************)
\* port_from: the default, the window's first and second port, its last
\* port, and the first port after it
PortFromChoices(gw) ==
    {port_from_default, offset(gw), offset(gw) + 1,
     offset(gw) + range_length - 1, offset(gw) + range_length}

\* listeners: none, one on the first port scanned, one on every port scanned
ResumeBusyChoices(gw, port_from) ==
    {{}, {range_start(gw, port_from)}, PortRange(gw, port_from)}

InitResume ==
    /\ gw_count = 0 /\ gw_number = 0 /\ busy = {}
    /\ gen = NewGen /\ yielded = <<>> /\ probed = {}
    /\ PairIdle /\ RunIdle /\ XIdle
    /\ NotResIdle
    /\ s_cnt \in {0, MAX_WORKER_COUNT, MAX_WORKER_COUNT + 1}
    /\ s_gw \in {0, 1, MAX_WORKER_COUNT - 1}
    /\ s_from \in PortFromChoices(s_gw)
    /\ s_busy \in ResumeBusyChoices(s_gw, s_from)
    /\ s_gen = NewGen
    /\ s_yielded = <<>>

\* next(gen) returning a port
ResumeNext ==
    /\ ~s_gen.done
    /\ LET r == GenNextFrom(s_gen, s_cnt, s_gw, s_busy, s_from)
       IN /\ r.kind = "port"
          /\ s_gen' = r.gen
          /\ s_yielded' = Append(s_yielded, [kind |-> r.kind, port |-> r.port])
    /\ UNCHANGED <<notResVars, s_cnt, s_gw, s_from, s_busy>>

\* next(gen) raising (pytest.exit or UnableToBind)
ResumeRaise ==
    /\ ~s_gen.done
    /\ LET r == GenNextFrom(s_gen, s_cnt, s_gw, s_busy, s_from)
       IN /\ r.kind \in {"Exit", "UnableToBind"}
          /\ s_gen' = r.gen
          /\ s_yielded' = Append(s_yielded, [kind |-> r.kind, port |-> r.port])
    /\ UNCHANGED <<notResVars, s_cnt, s_gw, s_from, s_busy>>

NextResume == ResumeNext \/ ResumeRaise

SpecResume == InitResume /\ [][NextResume]_vars

(***************************************************************************)
(* SpecPhases: plugin.py, the phase result variables of one worker         *)
(* process over the tests it runs.                                         *)
(***************************************************************************)
\* at most this many tests run on the worker
MaxTests == 2

Unset == "unset"

\* faulty variant: the result of the call phase is not cleaned
possible_phases_without_call == {"setup", "teardown"}

\* pytest_runtest_protocol: possible_phases
possible_phases == {"setup", "call", "teardown"}

\* the phases pytest reports for one test
Phases == {"setup", "call", "teardown"}

\* _PHASE_RESULT_VAR_NAME_TEMPLATE.format(phase=phase)
phase_var_name(phase) ==
    CASE phase = "setup" -> "rep_setup_passed"
      [] phase = "call" -> "rep_call_passed"
      [] phase = "teardown" -> "rep_teardown_passed"

PhaseVars == {phase_var_name(ph) : ph \in Phases}

\* str(rep.passed) of a report with outcome o
str_passed(o) == IF o = "passed" THEN "True" ELSE "False"

\* runtestprotocol: the call phase runs only after a passed setup, the
\* teardown always
next_phase(phase, o) ==
    CASE phase = "setup" -> IF o = "passed" THEN "call" ELSE "teardown"
      [] phase = "call" -> "teardown"
      [] phase = "teardown" -> "between"

\* the worker process inherits its environment: the variables may be set
InitPhases ==
    /\ gw_count = 0 /\ gw_number = 0 /\ busy = {}
    /\ gen = NewGen /\ yielded = <<>> /\ probed = {}
    /\ PairIdle /\ RunIdle /\ XIdle
    /\ NotEnvIdle
    /\ e_pc = "between"
    /\ e_test = 0
    /\ e_env \in [PhaseVars -> {Unset, "True", "False"}]
    /\ e_rep = [ph \in Phases |-> "none"]
    /\ e_prev = [v \in PhaseVars |-> Unset]

\* pytest_runtest_protocol up to its yield, for a new test item
PProtocol ==
    /\ e_pc = "between" /\ e_test < MaxTests
    /\ e_test' = e_test + 1
    /\ e_prev' = e_env
    /\ e_env' = [v \in PhaseVars |->
                    IF \E ph \in possible_phases : v = phase_var_name(ph)
                    THEN Unset ELSE e_env[v]]
    /\ e_rep' = [ph \in Phases |-> "none"]
    /\ e_pc' = "setup"
    /\ UNCHANGED notEnvVars

\* pytest_runtest_makereport for the phase that has just run
PMakeReport ==
    /\ e_pc \in Phases
    /\ \E o \in {"passed", "failed", "skipped"} :
         /\ e_env' = [e_env EXCEPT ![phase_var_name(e_pc)] = str_passed(o)]
         /\ e_rep' = [e_rep EXCEPT ![e_pc] = o]
         /\ e_pc' = next_phase(e_pc, o)
    /\ UNCHANGED <<notEnvVars, e_test, e_prev>>

\* pytest_sessionfinish: every variable with "rep_" in its name is deleted
PSessionFinish ==
    /\ e_pc = "between"
    /\ e_env' = [v \in PhaseVars |-> Unset]
    /\ e_pc' = "finished"
    /\ UNCHANGED <<notEnvVars, e_test, e_rep, e_prev>>

NextPhases == PProtocol \/ PMakeReport \/ PSessionFinish

SpecPhases == InitPhases /\ [][NextPhases]_vars

(***************************************************************************)
(* SpecPostgres: docker/launchers.py, ADCMWithPostgresLauncher:            *)
(* prepare, run, stop and cleanup in the order a caller uses them.         *)
(***************************************************************************)
\* at most this many on_cleanup hooks are registered
MaxCleanup == 2

CleanupSeqs == UNION {[1 .. n -> BOOLEAN] : n \in 0 .. MaxCleanup}

\* how _run_postgres ends: the container, an error of images.pull (no
\* container), or RuntimeError of a failed statement (the container runs)
RunPostgresOutcomes == {"ok", "PullError", "RuntimeError"}

\* how images.remove(image_name, force=True) ends at last
RemoveOutcomes == {"ok", "ImageNotFound", "APIError"}

\* retry(images.remove, ...): an error that outlasts the attempts is raised
\* to the caller
retry_result(o) == o

\* with suppress(ImageNotFound): retry(...)
RemoveSuppressed(o) == o = "ImageNotFound"

\* _prepare_default_kwargs: get_network_settings(self.postgres.container)
\* with self.postgres still None
needs_postgres(handle) == ~handle

InitPostgres ==
    /\ gw_count = 0 /\ gw_number = 0 /\ busy = {}
    /\ gen = NewGen /\ yielded = <<>> /\ probed = {}
    /\ PairIdle /\ RunIdle /\ XIdle
    /\ NotPgIdle
    /\ g_pc = "new"
    /\ g_prep \in BOOLEAN
    /\ g_hooks \in CleanupSeqs
    /\ g_handle = FALSE
    /\ g_pg = "none"
    /\ g_adcm = "none"
    /\ g_local = FALSE
    /\ g_log = <<>>
    /\ g_reported = {}
    /\ g_exc = "none"

\* prepare: self.postgres = PostgreSQL(container=self._run_postgres()), then
\* ADCMLauncher.prepare (nothing without stages; else run, steps, commit,
\* stop, image_name)
GPrepare ==
    /\ g_pc = "new"
    /\ \E o \in RunPostgresOutcomes :
         CASE o = "PullError" ->
                /\ g_exc' = o /\ g_pc' = "raised"
                /\ UNCHANGED <<g_handle, g_pg, g_adcm, g_local, g_log>>
           [] o = "RuntimeError" ->
                /\ g_exc' = o /\ g_pc' = "raised"
                /\ g_pg' = "running"
                /\ g_log' = Append(g_log, "postgres")
                /\ UNCHANGED <<g_handle, g_adcm, g_local>>
           [] o = "ok" ->
                /\ g_handle' = TRUE
                /\ g_pg' = "running"
                /\ IF ~g_prep
                   THEN /\ g_pc' = "prepared"
                        /\ g_log' = Append(g_log, "postgres")
                        /\ UNCHANGED <<g_adcm, g_local, g_exc>>
                   ELSE \E p \in {"ok", "raise"} :
                          /\ g_log' = g_log \o <<"postgres", "adcm">>
                          /\ IF p = "ok"
                             THEN /\ g_adcm' = "exited"
                                  /\ g_local' = TRUE
                                  /\ g_pc' = "prepared"
                                  /\ g_exc' = g_exc
                             ELSE /\ g_adcm' = "running"
                                  /\ g_pc' = "raised"
                                  /\ g_exc' = "PrepareError"
                                  /\ g_local' = g_local
    /\ UNCHANGED <<notPgVars, g_prep, g_hooks, g_reported>>

\* run: _run_adcm_container builds the kwargs from _prepare_default_kwargs,
\* which reads the Postgres container's address
GRun ==
    /\ g_pc \in {"new", "prepared", "stopped"}
    /\ Len(g_log) < MaxStarts + 1
    /\ IF needs_postgres(g_handle)
       THEN /\ g_exc' = "AttributeError" /\ g_pc' = "raised"
            /\ UNCHANGED <<g_adcm, g_log>>
       ELSE \E r \in ReadyOutcomes :
              /\ g_log' = Append(g_log, "adcm")
              /\ g_adcm' = StartedState(r)
              /\ IF r = "ready" THEN g_pc' = "running" /\ g_exc' = g_exc
                 ELSE g_pc' = "raised" /\ g_exc' = r
    /\ UNCHANGED <<notPgVars, g_prep, g_hooks, g_handle, g_pg, g_local, g_reported>>

\* ADCMLauncher.stop: with suppress(ReadTimeout): container.stop()
GStop ==
    /\ g_pc = "running"
    /\ \E o \in StopOutcomes :
         /\ g_adcm' \in container_after_stop(o)
         /\ IF o = "ok" \/ StopSuppressed(o)
            THEN g_pc' = "stopped" /\ g_exc' = g_exc
            ELSE g_pc' = "raised" /\ g_exc' = o
    /\ UNCHANGED <<notPgVars, g_prep, g_hooks, g_handle, g_pg, g_local, g_log,
                   g_reported>>

\* cleanup: ADCMLauncher.cleanup (hooks under _add_step_on_error, removal of
\* a local/adcminit image), then self.postgres.container.stop()
GCleanup ==
    /\ g_pc \in {"prepared", "stopped", "raised"}
    /\ g_reported' = {i \in DOMAIN g_hooks : g_hooks[i]}
    /\ \E o \in (IF g_local THEN RemoveOutcomes ELSE {"ok"}),
          s \in StopOutcomes :
         IF ~(retry_result(o) = "ok" \/ RemoveSuppressed(retry_result(o)))
         THEN /\ g_exc' = retry_result(o) /\ g_pc' = "cleanup_raised"
              /\ g_pg' = g_pg
         ELSE IF ~g_handle
         THEN /\ g_exc' = "AttributeError" /\ g_pc' = "cleanup_raised"
              /\ g_pg' = g_pg
         ELSE IF s = "ok"
         THEN /\ g_pg' = "stopped" /\ g_pc' = "cleaned" /\ g_exc' = g_exc
         ELSE /\ g_pg' = "stop_timed_out"
              /\ g_pc' = "cleanup_raised" /\ g_exc' = s
    /\ UNCHANGED <<notPgVars, g_prep, g_hooks, g_handle, g_adcm, g_local, g_log>>

NextPostgres == GPrepare \/ GRun \/ GStop \/ GCleanup

SpecPostgres == InitPostgres /\ [][NextPostgres]_vars

(***************************************************************************)
(* SpecSummary: objects/actions.py, ActionsRunReport.make_summary          *)
(***************************************************************************)
\* at most this many action runs are recorded
MaxCalls == 2

\* (bundle_info, parent_type, parent_name, action): two actions of one
\* prototype
ActionKeys ==
    {<<"bundle_1.0_community", "cluster", "cluster.Cluster", "install">>,
     <<"bundle_1.0_community", "cluster", "cluster.Cluster", "remove">>}

ExpectedStatuses == {"success", "failed"}
CalledFrom == {"test_a", "test_b"}

\* an ActionRunInfo
RunInfos ==
    [key : ActionKeys, expected_status : ExpectedStatuses, called_from : CalledFrom]

RunInfoSeqs == UNION {[1 .. n -> RunInfos] : n \in 0 .. MaxCalls}

\* {"call_count": 0, "expected_statuses": set(), "called_from": set()}
NewEntry ==
    [kind |-> "entry", call_count |-> 0, expected_statuses |-> {}, called_from |-> {}]

\* an empty nested_dict(), what a defaultdict creates for a missing key
NestedDict == [kind |-> "defaultdict"]

\* report[bundle][type][parent][action] on the nested defaultdict: a missing
\* key is created
Lookup(report, key) == IF key \in DOMAIN report THEN report[key] ELSE NestedDict

\* call_count += 1; expected_statuses.add(...); called_from.add(...)
Counted(entry, info) ==
    [entry EXCEPT !.call_count = @ + 1,
                  !.expected_statuses = @ \cup {info.expected_status},
                  !.called_from = @ \cup {info.called_from}]

\* the report after one pass of `for action in self.actions`: the entry the
\* lookup returned is updated in place; for a defaultdict a new dict is
\* bound to the local name and updated, the report keeps what the lookup
\* created
AfterCall(report, info) ==
    LET found == Lookup(report, info.key)
    IN [k \in DOMAIN report \cup {info.key} |->
          IF k # info.key THEN report[k]
          ELSE IF found.kind = "defaultdict" THEN found
          ELSE Counted(found, info)]

InitSummary ==
    /\ gw_count = 0 /\ gw_number = 0 /\ busy = {}
    /\ gen = NewGen /\ yielded = <<>> /\ probed = {}
    /\ PairIdle /\ RunIdle /\ XIdle
    /\ NotSumIdle
    /\ m_specs \in SUBSET ActionKeys
    /\ m_calls \in RunInfoSeqs
    /\ m_pc = "specs"
    /\ m_i = 0
    /\ m_report = <<>>

\* for actions_spec in self.actions_specs: for action in actions_spec.actions
MSpecs ==
    /\ m_pc = "specs"
    /\ m_report' = [k \in m_specs |-> NewEntry]
    /\ m_i' = 1
    /\ m_pc' = "calls"
    /\ UNCHANGED <<notSumVars, m_specs, m_calls>>

\* for action in self.actions: one pass
MCall ==
    /\ m_pc = "calls" /\ m_i <= Len(m_calls)
    /\ m_report' = AfterCall(m_report, m_calls[m_i])
    /\ m_i' = m_i + 1
    /\ UNCHANGED <<notSumVars, m_specs, m_calls, m_pc>>

\* return json.dumps(report, indent=2, cls=SetEncoder)
MDump ==
    /\ m_pc = "calls" /\ m_i > Len(m_calls)
    /\ m_pc' = "done"
    /\ UNCHANGED <<notSumVars, m_specs, m_calls, m_i, m_report>>

NextSummary == MSpecs \/ MCall \/ MDump

SpecSummary == InitSummary /\ [][NextSummary]_vars

(***************************************************************************)
(* Claims about port allocation                                            *)
(***************************************************************************)
\* the window of worker w as the specification states it: the usable range
\* cut into MAX_WORKER_COUNT equal-width windows, window w being the w-th
SpecWidth == (MAX_DOCKER_PORT - MIN_DOCKER_PORT) \div MAX_WORKER_COUNT

SpecWindow(w) ==
    (MIN_DOCKER_PORT + w * SpecWidth) .. (MIN_DOCKER_PORT + (w + 1) * SpecWidth - 1)

PortsOf(hist) == {hist[i].port : i \in {j \in 1 .. Len(hist) : hist[j].kind = "port"}}

\* C7: for two different worker indices within MAX_WORKER_COUNT the ports
\* their generators yield are disjoint, and every yielded port lies in
\* [MIN_DOCKER_PORT, MAX_DOCKER_PORT).
C7_WindowsDisjoint ==
    /\ PortsOf(yielded) \cup PortsOf(yielded_other)
            \subseteq MIN_DOCKER_PORT .. MAX_DOCKER_PORT - 1
    /\ gw_number # gw_other => PortsOf(yielded) \cap PortsOf(yielded_other) = {}

C7_Witness ==
    /\ gw_other = gw_number + 1
    /\ gen.done /\ gen_other.done
    /\ Cardinality(PortsOf(yielded)) = range_length
    /\ Cardinality(PortsOf(yielded_other)) = range_length

\* C9: an allocation returns the lowest port of the worker's window on which
\* nothing listens (a further next() the lowest one above the previous
\* port); with the whole window occupied it raises UnableToBind and returns
\* no port.
C9_LowestFreePort ==
    /\ \A i \in 1 .. Len(yielded) :
          yielded[i].kind = "port" =>
            /\ yielded[i].port \in SpecWindow(gw_number) \ busy
            /\ \A q \in SpecWindow(gw_number) :
                  (q < yielded[i].port /\ (i > 1 => q > yielded[i - 1].port))
                      => q \in busy
    /\ (Len(yielded) >= 1 /\ gw_count <= MAX_WORKER_COUNT) =>
          (yielded[1].kind = "UnableToBind" <=> SpecWindow(gw_number) \subseteq busy)
    /\ \A i \in 1 .. Len(yielded) :
          yielded[i].kind = "UnableToBind" =>
            /\ yielded[i].port = NoPort
            /\ \A q \in SpecWindow(gw_number) :
                  (i > 1 => q > yielded[i - 1].port) => q \in busy

C9_Witness ==
    /\ Len(yielded) >= 1
    /\ yielded[1].kind = "port"
    /\ yielded[1].port > MIN_DOCKER_PORT + gw_number * range_length
    /\ gw_number > 0

\* C10: a worker whose index exceeds MAX_WORKER_COUNT gets no port: its
\* first next() fails (pytest.exit) before any port is probed or yielded.
C10_FailFast ==
    gw_number > MAX_WORKER_COUNT =>
        /\ probed = {}
        /\ PortsOf(yielded) = {}
        /\ Len(yielded) >= 1 => yielded[1].kind = "Exit"

(***************************************************************************)
(* Claims about the container start and the readiness wait                 *)
(***************************************************************************)
RecognizedCollision(e) == e \cap {PortAllocated, AddressInUse, CannotAssign} # {}

C2_FreshPortOnRetry ==
    /\ (pc \in {"l_start", "w_loop"} /\ attempts >= 1) => bind_port # prev_port
    /\ (pc \in {"l_started", "w_wait"} /\ ~preset) => allocs = attempts
    /\ (pc = "returned" /\ ~https) => adcm.port = bind_port

\* C3: a start error is retried if and only if its explanation contains one
\* of the three recognized collision texts; any other one propagates.
C3_RetryIffRecognized ==
    /\ (pc = "raised" /\ exc = "APIError" /\ ~preset) => ~RecognizedCollision(last_expl)
    /\ (pc \in {"l_loop", "w_loop"} /\ attempts >= 1) => RecognizedCollision(last_expl)

\* C4: once run has returned or raised, a handle the caller can observe
\* belongs to a container whose health endpoint has answered 200.
C4_ReadinessContract ==
    (pc \in {"returned", "raised"} /\ adcm.set) => ok200

\* C5: when the deadline passes without a 200 the container's kill is
\* called exactly once, a timeout error is raised (given the kill call
\* itself returned or raised APIError; the other case is C6), and its
\* message names the last request error seen while polling, if there was one.
C5_TimeoutKillsAndReports ==
    timed_out =>
        /\ kill_calls = 1
        /\ kill_result \in {"ok", "APIError"} =>
              /\ exc = "TimeoutError"
              /\ errlog # <<>> => message.last_error = errlog[Len(errlog)]

\* C6: however the kill after a readiness timeout fails, the timeout error
\* is what is raised, with the warning in its message.
C6_KillFailureNeverMasks ==
    timed_out =>
        /\ exc = "TimeoutError"
        /\ kill_result # "ok" => message.warning

\* C8: with the workers of one xdist run starting instances in any
\* interleaving, running instances of different workers never hold the same
\* port, every start succeeds (no worker fails, no attempt is rejected, each
\* instance sits in its own worker's window), and the port a worker is about
\* to submit is never one of its own running instances.
C8_WorkersIsolated ==
    /\ \A w1, w2 \in DOMAIN x_running :
          w1 # w2 => x_running[w1] \cap x_running[w2] = {}
    /\ \A w \in DOMAIN x_pc :
          /\ x_pc[w] # "failed"
          /\ x_running[w] \subseteq SpecWindow(w)
          /\ Cardinality(x_running[w]) <= x_started[w]
          /\ x_pc[w] = "loop" => x_port[w] \notin x_running[w]
    /\ x_collisions = 0

C8_Witness ==
    /\ DOMAIN x_running = Workers
    /\ \A w \in Workers : Cardinality(x_running[w]) = MaxInst

(***************************************************************************)
(* Claims about the preparation of the initialized image                   *)
(***************************************************************************)
Count(seq, x) == Cardinality({i \in 1 .. Len(seq) : seq[i] = x})

Pos(seq, x) == CHOOSE i \in 1 .. Len(seq) : seq[i] = x

\* C11: when the image repo:tag is present in the runtime, the initializer
\* returns that name and has started no container, run no init step and
\* committed nothing; the base instance is started only when it is missing.
C11_ImageReuse ==
    i_impl = "initializer" =>
        /\ i_pc = "start" => i_image \notin i_images
        /\ (i_image \in i_images /\ Count(i_ops, "commit") = 0) =>
              /\ i_ops = <<>> /\ i_steps = 0 /\ i_cont = "none"
              /\ i_pc \in {"idle", "yielded", "done", "cleanup_raised"}
              /\ i_pc # "idle" => i_result = i_image

C11_Witness ==
    /\ i_impl = "initializer" /\ i_pc = "yielded"
    /\ i_existed /\ i_ops = <<>> /\ i_result = StaticImage

C13_SnapshotOrdering ==
    /\ Count(i_ops, "commit") >= 1 =>
          /\ i_commit_on = "exited"
          /\ Count(i_ops, "stop") = 1
          /\ Pos(i_ops, "stop") < Pos(i_ops, "commit")
    /\ Count(i_ops, "remove") >= 1 =>
          (Count(i_ops, "commit") = 1 /\ Pos(i_ops, "commit") < Pos(i_ops, "remove"))
    /\ (i_result # NoImage /\ ~i_existed /\ i_pc \in {"yielded", "done"} /\ i_ops # <<>>) =>
          (i_cont = "removed" /\ (i_pc = "yielded" => i_image \in i_images))

\* C14: a failed preparation (readiness timeout, or an init step raising)
\* leaves no derived image and no initializer container, running or stopped.
C14_FailedPreparationLeavesNothing ==
    (i_pc = "raised" /\ i_exc \in {"TimeoutError", "StepError", "ErrorMessage"}) =>
        /\ i_image \notin i_images
        /\ i_cont \in {"none", "removed"}

\* C15: a BUNDLE_ERROR upload counts as success, any other error is raised,
\* and a failing upload is not retried: one attempt per url.
C15_UploadNotRetried ==
    /\ i_max_tries <= 1
    /\ i_tries <= 1
    /\ (i_upload_err # "none" /\ i_upload_err # "BUNDLE_ERROR") =>
          (i_pc = "raised" /\ i_exc = "ErrorMessage")
    /\ i_upload_err # "BUNDLE_ERROR"

(***************************************************************************)
(* Claims about the run arguments                                          *)
(***************************************************************************)
\* entries the hooks 1 .. n returned for key k
Contributed(hooks, k) ==
    UNION {hooks[i].own : i \in {j \in 1 .. Len(hooks) : hooks[j].key = k}}

\* C16: the final run arguments hold remove = true and, under every nested
\* dict-valued key, the union of the entries of all hooks that returned a
\* value for that key (not only those of the last such hook).
C16_NestedKeysMerged ==
    f_pc = "done" =>
        /\ f_kwargs["remove"] = TRUE
        /\ \A k \in NestedKeys :
              /\ k \in DOMAIN f_kwargs <=> Contributed(f_hooks, k) # {}
              /\ k \in DOMAIN f_kwargs => f_kwargs[k] = Contributed(f_hooks, k)

(***************************************************************************)
(* Claims about the reachable address                                      *)
(***************************************************************************)
\* C17: the handle's address and ports are the container's internal address
\* and the internal ports 8000 / 8443 iff the bind address is the loopback
\* default and the orchestrator runs inside a container; otherwise the bind
\* address and the bound host ports.  The url is https with the secure port
\* iff TLS is enabled, else http with the plain port.
C17_AddressResolution ==
    a_pc = "resolved" =>
        LET inside == a_bind_ip = "127.0.0.1" /\ a_in_docker
        IN /\ inside =>
                /\ a_handle.ip = a_container_ip
                /\ a_handle.port = 8000
                /\ a_handle.secure_port = 8443
           /\ ~inside =>
                /\ a_handle.ip = a_bind_ip
                /\ a_handle.port = a_host_port
                /\ a_handle.secure_port = a_host_secure_port
           /\ a_handle.url.ip = a_handle.ip
           /\ a_https =>
                (a_handle.url.protocol = "https" /\ a_handle.url.port = a_handle.secure_port)
           /\ ~a_https =>
                (a_handle.url.protocol = "http" /\ a_handle.url.port = a_handle.port)

C17_Witness ==
    /\ a_pc = "resolved"
    /\ a_bind_ip = "127.0.0.1" /\ a_in_docker /\ a_https
    /\ a_handle.url = [protocol |-> "https", ip |-> a_container_ip, port |-> 8443]

(***************************************************************************)
(* Claims about the teardown                                               *)
(***************************************************************************)
\* C18: ADCMLauncher.stop invokes every pre_stop hook exactly once, in
\* registration order, whichever of them raise; each exception is reported
\* and swallowed; the container stop runs once, after the last hook.
C18_PreStopIsolation ==
    t_impl = "launcher" =>
        /\ \A j \in 1 .. Len(t_calls) : t_calls[j] = j
        /\ Len(t_calls) <= Len(t_hooks)
        /\ t_reported = {j \in 1 .. Len(t_calls) : t_hooks[j]}
        /\ t_stop_calls >= 1 => Len(t_calls) = Len(t_hooks)
        /\ t_pc # "hooks" => (Len(t_calls) = Len(t_hooks) /\ t_stop_calls = 1)
        /\ t_exc # "Exception"

C18_Witness ==
    /\ t_impl = "launcher" /\ t_pc = "done"
    /\ t_hooks = <<FALSE, TRUE, FALSE>>
    /\ t_calls = <<1, 2, 3>> /\ t_reported = {2}
    /\ t_stop_calls = 1

\* C19: in the fixture teardown, unless --dontstop, the container is stopped
\* and its volumes are removed even when the artifact collection fails.
C19_CollectFailureIsolated ==
    (t_impl = "fixture" /\ ~t_dontstop /\ t_pc \in {"done", "raised"}) =>
        /\ t_stop_calls = 1
        /\ t_volumes \cap t_mounted = {}

C21_LeaveRunning ==
    (t_impl = "fixture" /\ t_dontstop) =>
        /\ t_attach = "none"
        /\ t_stop_calls = 0
        /\ t_pc \notin {"f_stop", "volumes", "raised"}
        /\ t_skipped = {}
        /\ t_pc \in {"test", "teardown", "done"} => t_cont = "running"
        /\ t_pc = "done" => t_url

C21_Witness ==
    /\ t_impl = "fixture" /\ t_dontstop /\ t_gather
    /\ t_pc = "done" /\ t_url /\ t_cont = "running"
    /\ t_volumes \cap t_mounted # {}

\* C22: while the test runs the fixture's container is running; after a
\* teardown without --dontstop no container of the image is left, running or
\* stopped, whichever way the teardown went.
C22_NoContainerLeft ==
    t_impl = "fixture" =>
        /\ t_pc = "test" => t_cont = "running"
        /\ (~t_dontstop /\ t_pc \in {"done", "raised"}) => t_cont = "removed"

\* C26: the instance given by adcm_fs has a volume bound to /adcm/shadow
\* exactly when adcm_is_upgradable is true for the test.
C26_UpgradableFlag ==
    (t_impl = "fixture" /\ t_postgres /\ t_pc # "setup") =>
        (t_shadow <=> t_upgradable)

(***************************************************************************)
(* Claims about run, upgrade, stop and cleanup                             *)
(***************************************************************************)
\* C23: after ADCMLauncher.cleanup no derived image committed by prepare is
\* left in the runtime, whatever run, upgrade and stop operations were made
\* in between; the base image is never removed.
C23_CleanupLeakFree ==
    u_impl = "launcher" =>
        /\ u_pc = "cleaned" => u_committed \cap u_images = {}
        /\ BaseImage \in u_images

\* C24: upgrade on a handle without a data volume (wrapper: empty volumes;
\* launcher: no /adcm/data mount, unnamed volume, or no recorded kwargs)
\* raises before any container is exec'd into, stopped or started, and leaves
\* the running container and the image name as they were.
C24_UpgradePrecondition ==
    /\ u_pc \in {"up_copy", "up_cfg", "up_stop", "up_start"} => DOMAIN u_volumes # {}
    /\ u_pc \in {"lup_stop", "lup_run"} =>
          (u_conts[cur].args.mount = "named" /\ u_fact.given)
    /\ (u_pc = "raised" /\ u_exc \in {"AssertionError", "RuntimeError"}) =>
          /\ u_log = <<>>
          /\ CurState = "running"
          /\ u_conts[cur].image = u_image
          /\ u_exc = "AssertionError" => u_volumes = NoVolumes

C24_Witness ==
    /\ u_impl = "wrapper" /\ u_pc = "raised" /\ u_exc = "AssertionError"
    /\ u_volumes = NoVolumes /\ CurState = "running"
    /\ u_target = <<"arenadata/adcm", "2023.02">>

C28_ImageTagNonEmpty ==
    u_impl = "wrapper" => (~Falsy(u_image[1]) /\ ~Falsy(u_image[2]))

\* C29: a stop of an instance that was already stopped, its container gone,
\* completes without raising.
C29_StopIdempotent ==
    u_restop \in {"none", "ok"}

(***************************************************************************)
(* Claims about the options of the image fixture                           *)
(***************************************************************************)
MoreThanOne(options, opts) ==
    \E a, b \in 1 .. Len(opts) : a # b /\ ~Falsy(options[opts[a]]) /\ ~Falsy(options[opts[b]])

\* C27: the image fixture raises before any image lookup or container start
\* whenever more than one option of either exclusive set is set, and
\* check_mutually_exclusive is true exactly when more than one of the listed
\* options is truthy.
C27_MutuallyExclusive ==
    /\ \A k \in 1 .. Len(mutually_exclusive_opts) :
         check_mutually_exclusive(o_options, mutually_exclusive_opts[k])
            <=> MoreThanOne(o_options, mutually_exclusive_opts[k])
    /\ (\E k \in 1 .. Len(mutually_exclusive_opts) :
          MoreThanOne(o_options, mutually_exclusive_opts[k]))
         => (o_lookups = 0 /\ o_pc \in {"check", "raised"})
    /\ o_pc = "raised" =>
         (o_exc = "Exception" /\ MoreThanOne(o_options, mutually_exclusive_opts[o_i]))

C27_Witness ==
    /\ o_pc = "raised" /\ o_i = 2 /\ o_lookups = 0
    /\ o_options["staticimage"] = "given" /\ o_options["adcm_images"] = "given"
    /\ o_options["adcm_image"] = "" /\ o_options["adcm_min_version"] = None

(***************************************************************************)
(* Claims about the action steps                                           *)
(***************************************************************************)
\* C30: with expected status success, a task that finished otherwise makes
\* the step raise an AssertionError carrying the error text of the failed
\* jobs' logs, whatever the logs look like; no other exception escapes.
C30_FailedActionAsserts ==
    (r_status = "success" /\ r_result # "success" /\ r_pc \in {"done", "raised"}) =>
        /\ r_pc = "raised"
        /\ r_exc = "AssertionError"
        /\ r_msg = r_text

(***************************************************************************)
(* Claims about the wrapper's retry loop and the resumed allocation        *)
(***************************************************************************)
\* C31: a wrapper run (_run_container_on_free_port) over a window without
\* listeners in which every start attempt raised a recognized collision ends
\* with RetryCountExceeded after exactly CONTAINER_START_RETRY_COUNT
\* attempts, with and without TLS.
C31_WrapperRetryCountExceeded ==
    (/\ impl = "wrapper" /\ ~preset
     /\ pc = "raised" /\ attempts >= 1 /\ all_collided
     /\ ~rival /\ busy = {}) =>
        (exc = "RetryCountExceeded" /\ attempts = CONTAINER_START_RETRY_COUNT)

\* C32: every port _yield_ports(ip, port_from) yields lies between
\* max(port_from, window start) and the window's upper edge
\* (window start + window width), so never in another worker's window.
C32_ResumeBoundedByWindow ==
    \A i \in DOMAIN s_yielded :
        s_yielded[i].kind = "port" =>
            /\ Max(s_from, offset(s_gw)) <= s_yielded[i].port
            /\ s_yielded[i].port < offset(s_gw) + range_length

(***************************************************************************)
(* Claims about the order of teardown                                      *)
(***************************************************************************)
\* C33: remove_container_volumes is called only when the container is no
\* longer running (exited or removed), on every teardown path of the
\* launcher and of the fixture, the tolerated read-timeout of the stop call
\* included.
C33_VolumesAfterContainerGone ==
    [][(t_pc = "volumes" /\ t_pc' = "done") => t_cont \in {"exited", "removed"}]_vars

(***************************************************************************)
(* Claims about the end of the readiness wait                              *)
(***************************************************************************)
\* C34: the launcher's readiness wait ends in one of two ways only: it
\* returns on the first poll that answered 200, without a kill, or it raises
\* the timeout error once the deadline has passed; request errors and
\* non-200 answers neither end it nor are raised.
C34_ReadinessWaitEnds ==
    (impl = "launcher" /\ polls >= 1) =>
        /\ pc \in {"l_wait", "returned", "raised"}
        /\ pc = "returned" => (ok200 /\ kill_calls = 0 /\ ~timed_out)
        /\ pc = "raised" => (timed_out /\ ~ok200 /\ exc = "TimeoutError")
        /\ pc = "l_wait" => (~ok200 /\ exc = "none")

(***************************************************************************)
(* Claims about the phase result variables                                 *)
(***************************************************************************)
\* C35: from the start of a test's run protocol on, each of rep_setup_passed,
\* rep_call_passed, rep_teardown_passed is unset until this test's report of
\* that phase is made and holds that report's pass status afterwards: no
\* value left by an earlier test (or inherited) is visible to the test.
C35_PhaseResultsOwn ==
    (e_pc \in Phases \/ (e_pc = "between" /\ e_test >= 1)) =>
        \A ph \in Phases :
            e_env[phase_var_name(ph)] =
                IF e_rep[ph] = "none" THEN Unset ELSE str_passed(e_rep[ph])

\* the second test's setup failed, so it has no call report, while the
\* previous test had left a call result on the worker
C35_Witness ==
    /\ e_test >= 2
    /\ e_pc = "teardown"
    /\ e_rep["setup"] = "failed"
    /\ e_rep["call"] = "none"
    /\ e_prev[phase_var_name("call")] = "True"
    /\ e_env[phase_var_name("call")] = Unset

(***************************************************************************)
(* Claims about the ports of a TLS start                                   *)
(***************************************************************************)
\* C36: with TLS enabled, the host ports a start attempt is about to submit
\* for 8000 and 8443 (allocated by the run, first attempt or retry) are two
\* different ports of the worker's window on which nothing was listening
\* when they were probed.
C36_TlsPortsDistinctFreeInWindow ==
    (https /\ ~preset /\ pc \in {"l_start", "w_loop"}) =>
        /\ bind_port # bind_secure_port
        /\ {bind_port, bind_secure_port} \subseteq PortRange(gw_number, port_from_default)
        /\ {bind_port, bind_secure_port} \cap busy = {}

\* a retry: the previous attempt collided and a new pair has been allocated
C36_Witness ==
    /\ https /\ ~preset
    /\ pc \in {"l_start", "w_loop"}
    /\ attempts >= 2
    /\ rival
    /\ bind_port # NoPort /\ bind_secure_port # NoPort

(***************************************************************************)
(* Claims about the initializer's cleanup                                  *)
(***************************************************************************)
\* C37: once get_initialized_adcm_image has returned, the teardown of the
\* image fixture gets through ADCMInitializer.cleanup without an error and
\* reaches the decision on removing the image, also with TLS enabled and an
\* existing image reused.
C37_CleanupCompletes ==
    i_impl = "initializer" =>
        /\ i_pc # "cleanup_raised"
        /\ i_exc # "AttributeError"

(***************************************************************************)
(* Claims about the Postgres companion                                     *)
(***************************************************************************)
\* C38: the Postgres container of an ADCMWithPostgresLauncher is started
\* before any of its ADCM containers and runs whenever one of them runs, and
\* once cleanup has ended, however it ended, the stop of the Postgres
\* container has been issued (it is stopped, or its stop call timed out).
C38_PostgresCompanion ==
    /\ \A i \in DOMAIN g_log :
          g_log[i] = "adcm" => \E j \in 1 .. (i - 1) : g_log[j] = "postgres"
    /\ g_adcm = "running" => g_pg = "running"
    /\ g_pc \in {"cleaned", "cleanup_raised"} => g_pg # "running"

(***************************************************************************)
(* Claims about the launcher's image_name                                  *)
(***************************************************************************)
\* C39: the launcher's image_name is the derived local/adcminit image only
\* after the commit to exactly that name has completed; when prepare has
\* raised, or has no prepare_image stage (and then starts no container),
\* image_name is still the base image; after a successful prepare
\* launcher.adcm is None.
C39_ImageNameAfterCommit ==
    i_impl = "launcher" =>
        /\ i_result \in {NoImage, i_image}
        /\ i_result = i_image =>
              /\ i_image.repo = "local/adcminit"
              /\ i_image \in i_images
              /\ Count(i_ops, "commit") = 1
        /\ i_pc = "raised" => i_result = NoImage
        /\ (i_pc = "done" /\ i_todo = 0) =>
              (i_result = NoImage /\ i_ops = <<>> /\ i_cont = "none")
        /\ i_pc = "done" => ~i_adcm

\* prepare with stages has completed: the derived image is image_name
C39_Witness ==
    /\ i_impl = "launcher" /\ i_pc = "done"
    /\ i_todo >= 1
    /\ i_result = i_image
    /\ i_image \in i_images
    /\ ~i_adcm

(***************************************************************************)
(* Claims about the actions report                                         *)
(***************************************************************************)
\* the recorded runs of the action with key k
RunsOf(k) == {i \in DOMAIN m_calls : m_calls[i].key = k}

\* C40: in the summary every action that was called or is listed in a spec
\* has an entry whose call_count is the number of its recorded runs and
\* whose expected_statuses / called_from are the sets of the values of those
\* runs (0 and empty sets for a listed action never called), also when the
\* called action has no spec.
C40_SummaryCounts ==
    m_pc = "done" =>
        \A k \in ActionKeys :
            (k \in m_specs \/ RunsOf(k) # {}) =>
                /\ k \in DOMAIN m_report
                /\ m_report[k].kind = "entry"
                /\ m_report[k].call_count = Cardinality(RunsOf(k))
                /\ m_report[k].expected_statuses =
                      {m_calls[i].expected_status : i \in RunsOf(k)}
                /\ m_report[k].called_from =
                      {m_calls[i].called_from : i \in RunsOf(k)}

====
